---------------------------- MODULE Spec2Model ----------------------------
(***************************************************************************)
(* Model of the numerical core of Ostap's MoreMath.cpp: the continued-     *)
(* fraction evaluators and the exponential partial sums.                   *)
(*                                                                         *)
(* Floating-point values are modelled in exact arithmetic, together with   *)
(* the IEEE special values (signed zero, signed infinity, NaN) and the     *)
(* finite range of `double'.  Rounding of the significand is not           *)
(* modelled.  A finite number is a polynomial in the radix                 *)
(* Radix = 2^RadixBits = 2^(-s_imax) = s_large with integer coefficients   *)
(* of magnitude below 2^31: such a representation is unique, the sign of   *)
(* the number is the sign of its leading coefficient, and std::ldexp by    *)
(* s_imax is a shift of the exponents by one.                              *)
(***************************************************************************)
EXTENDS Integers, Sequences, FiniteSets, TLC

\* --------------------------------------------------------------------------
\* program constants
\* --------------------------------------------------------------------------
\* const int s_imax = -32
s_imax == -32
\* the model's radix is s_large = 2^(-s_imax): one radix digit is 32 bits
RadixBits == 32

\* --------------------------------------------------------------------------
\* exact finite numbers: [off, cs, neg] is the sum of cs[j] * Radix^(off+j-1);
\* neg is the sign bit of a zero (FALSE for every non-zero number)
\* --------------------------------------------------------------------------
Min2(i, j) == IF i <= j THEN i ELSE j
Max2(i, j) == IF i >= j THEN i ELSE j
AbsInt(i) == IF i < 0 THEN -i ELSE i

PZero == [off |-> 0, cs |-> <<>>, neg |-> FALSE]
PNegZero == [off |-> 0, cs |-> <<>>, neg |-> TRUE]
PIsZero(p) == p.cs = <<>>
PMono(c, e) == IF c = 0 THEN PZero ELSE [off |-> e, cs |-> <<c>>, neg |-> FALSE]
PInt(c) == PMono(c, 0)
PTop(p) == p.off + Len(p.cs) - 1
PCoef(p, i) == IF i >= p.off /\ i <= PTop(p) THEN p.cs[i - p.off + 1] ELSE 0

\* sign: -1, 0, 1 (the leading coefficient decides)
PSign(p) ==
  IF PIsZero(p) THEN 0 ELSE IF p.cs[Len(p.cs)] > 0 THEN 1 ELSE -1
\* the IEEE sign bit
PNegative(p) == IF PIsZero(p) THEN p.neg ELSE PSign(p) < 0

\* the canonical number with coefficients f[lo..hi]; zsign is the sign bit
\* taken when all of them vanish
PNorm(f, lo, hi, zsign) ==
  LET nz == {i \in lo..hi : f[i] # 0}
  IN  IF nz = {} THEN [off |-> 0, cs |-> <<>>, neg |-> zsign]
      ELSE LET first == CHOOSE i \in nz : \A j \in nz : i <= j
               last == CHOOSE i \in nz : \A j \in nz : i >= j
           IN  [off |-> first,
                cs |-> [j \in 1..(last - first + 1) |-> f[first + j - 1]],
                neg |-> FALSE]

PNeg(p) ==
  IF PIsZero(p) THEN [p EXCEPT !.neg = ~p.neg]
  ELSE [p EXCEPT !.cs = [j \in 1..Len(p.cs) |-> -p.cs[j]]]

\* IEEE addition, round to nearest: x + (-x) = +0, (-0) + (-0) = -0
PAdd(p, q) ==
  IF PIsZero(p) /\ PIsZero(q) THEN (IF p.neg /\ q.neg THEN PNegZero ELSE PZero)
  ELSE IF PIsZero(p) THEN q
  ELSE IF PIsZero(q) THEN p
  ELSE LET lo == Min2(p.off, q.off)
           hi == Max2(PTop(p), PTop(q))
       IN  PNorm([i \in lo..hi |-> PCoef(p, i) + PCoef(q, i)], lo, hi, FALSE)

PSub(p, q) == PAdd(p, PNeg(q))

\* the digit of weight Radix^d of p * q: the sum of PCoef(p, i) * PCoef(q, d - i)
\* over the set S of the i where both digits are non-zero
RECURSIVE ConvSum(_, _, _, _)
ConvSum(p, q, d, S) ==
  IF S = {} THEN 0
  ELSE LET i == CHOOSE j \in S : TRUE
       IN  PCoef(p, i) * PCoef(q, d - i) + ConvSum(p, q, d, S \ {i})

NonZeroPairs(p, q, d) ==
  {i \in p.off..PTop(p) : PCoef(p, i) # 0 /\ PCoef(q, d - i) # 0}

\* IEEE multiplication: the sign of a zero product is the xor of the signs
PMul(p, q) ==
  IF PIsZero(p) \/ PIsZero(q)
  THEN (IF PNegative(p) # PNegative(q) THEN PNegZero ELSE PZero)
  ELSE LET lo == p.off + q.off
           hi == PTop(p) + PTop(q)
       IN  PNorm([d \in lo..hi |-> ConvSum(p, q, d, NonZeroPairs(p, q, d))],
                 lo, hi, FALSE)

PScale(c, p) == PMul(PInt(c), p)
PAbs(p) == IF PNegative(p) THEN PNeg(p) ELSE p
PLess(p, q) == PSign(PSub(q, p)) > 0
PGreater(p, q) == PLess(q, p)

\* std::ldexp ( p , e ) for e a multiple of RadixBits: exact, keeps the sign
\* of a zero
ldexp(p, e) ==
  IF PIsZero(p) THEN p ELSE [p EXCEPT !.off = p.off + (e \div RadixBits)]

\* const long double s_large = std::pow ( 2.0 , -s_imax )
s_large == PMono(1, (-s_imax) \div RadixBits)


\* --------------------------------------------------------------------------
\* values of type double (or long double) that a function returns:
\*   [k |-> "fin", n, d]   the quotient n/d of two exact numbers, d > 0
\*   [k |-> "inf", neg]    an infinity and its sign bit
\*   [k |-> "nan"]         not-a-number
\* --------------------------------------------------------------------------
NaN == [k |-> "nan"]
Inf(sgn) == [k |-> "inf", neg |-> sgn]
Fin(p) == [k |-> "fin", n |-> p, d |-> PInt(1)]
IsFin(v) == v.k = "fin"
IsNaN(v) == v.k = "nan"
IsInf(v) == v.k = "inf"

\* the IEEE quotient h / k of two finite numbers
Div(h, k) ==
  IF PIsZero(k)
  THEN (IF PIsZero(h) THEN NaN ELSE Inf(PNegative(h) # PNegative(k)))
  ELSE IF PSign(k) > 0 THEN [k |-> "fin", n |-> h, d |-> k]
  ELSE [k |-> "fin", n |-> PNeg(h), d |-> PNeg(k)]

RECURSIVE GCD(_, _)
GCD(i, j) == IF j = 0 THEN i ELSE GCD(j, i % j)

\* the greatest common divisor of the coefficients of p (0 for zero)
RECURSIVE GCDOver(_, _)
GCDOver(p, S) ==
  IF S = {} THEN 0
  ELSE LET j == CHOOSE i \in S : TRUE
       IN  GCD(AbsInt(p.cs[j]), GCDOver(p, S \ {j}))
PContent(p) == GCDOver(p, {j \in 1..Len(p.cs) : p.cs[j] # 0})

\* p with every coefficient divided by g, which divides them all
PDivExact(p, g) ==
  IF PIsZero(p) THEN p
  ELSE [p EXCEPT !.cs = [j \in 1..Len(p.cs) |-> p.cs[j] \div g]]

\* the same quotient in lowest integer terms
Reduce(v) ==
  IF ~IsFin(v) THEN v
  ELSE LET g == GCD(PContent(v.n), PContent(v.d))
       IN  IF g <= 1 THEN v
           ELSE [k |-> "fin", n |-> PDivExact(v.n, g), d |-> PDivExact(v.d, g)]

\* the denominator is an integer
IntDen(v) == v.d.off = 0 /\ Len(v.d.cs) = 1

VNeg(v) ==
  IF IsNaN(v) THEN v
  ELSE IF IsInf(v) THEN Inf(~v.neg)
  ELSE [v EXCEPT !.n = PNeg(v.n)]

VNegative(v) == IF IsInf(v) THEN v.neg ELSE PNegative(v.n)

\* the IEEE sum of two values
VAdd(v, w) ==
  IF IsNaN(v) \/ IsNaN(w) THEN NaN
  ELSE IF IsInf(v) /\ IsInf(w) THEN (IF v.neg = w.neg THEN v ELSE NaN)
  ELSE IF IsInf(v) THEN v
  ELSE IF IsInf(w) THEN w
  ELSE IF IntDen(v) /\ IntDen(w)
  THEN LET dv == v.d.cs[1]
           dw == w.d.cs[1]
           g == GCD(dv, dw)
       IN  Reduce([k |-> "fin",
                   n |-> PAdd(PScale(dw \div g, v.n), PScale(dv \div g, w.n)),
                   d |-> PInt((dv \div g) * dw)])
  ELSE [k |-> "fin", n |-> PAdd(PMul(v.n, w.d), PMul(w.n, v.d)),
        d |-> PMul(v.d, w.d)]

VSub(v, w) == VAdd(v, VNeg(w))

\* the IEEE product of two values
VMul(v, w) ==
  IF IsNaN(v) \/ IsNaN(w) THEN NaN
  ELSE IF IsInf(v) \/ IsInf(w)
  THEN (IF (IsFin(v) /\ PIsZero(v.n)) \/ (IsFin(w) /\ PIsZero(w.n)) THEN NaN
        ELSE Inf(VNegative(v) # VNegative(w)))
  ELSE Reduce([k |-> "fin", n |-> PMul(v.n, w.n), d |-> PMul(v.d, w.d)])

\* the IEEE quotient of two values
VDiv(v, w) ==
  IF IsNaN(v) \/ IsNaN(w) THEN NaN
  ELSE IF IsInf(v) THEN (IF IsInf(w) THEN NaN ELSE Inf(v.neg # VNegative(w)))
  ELSE IF IsInf(w) THEN Fin(IF v.neg # VNegative(w) THEN PNegZero ELSE PZero)
  ELSE Reduce(Div(PMul(v.n, w.d), PMul(v.d, w.n)))

\* v < w and v > w (false when either is NaN)
VLess(v, w) ==
  /\ ~IsNaN(v) /\ ~IsNaN(w)
  /\ IF IsInf(v) THEN v.neg /\ ~(IsInf(w) /\ w.neg)
     ELSE IF IsInf(w) THEN ~w.neg
     ELSE PLess(PMul(v.n, w.d), PMul(w.n, v.d))
VGreater(v, w) == VLess(w, v)

VAbs(v) == IF IsNaN(v) THEN v ELSE IF VNegative(v) THEN VNeg(v) ELSE v

\* numerical equality of two values (NaN equals nothing, not even itself)
VEq(v, w) ==
  /\ ~IsNaN(v) /\ ~IsNaN(w)
  /\ IF IsInf(v) \/ IsInf(w) THEN IsInf(v) /\ IsInf(w) /\ v.neg = w.neg
     ELSE PIsZero(PSub(PMul(v.n, w.d), PMul(w.n, v.d)))

\* --------------------------------------------------------------------------
\* bounds of the model and the inputs drawn within them
\* --------------------------------------------------------------------------
\* longest coefficient sequence given to the one-sequence evaluators
MaxLen == 3
\* longest coefficient sequence given to the two-sequence evaluator
MaxLenAB == 2

SeqsUpTo(S, m) == UNION {[1..j -> S] : j \in 0..m}

\* coefficients: 0, 1, -1, 2, 2^32 and -3 * 2^32
CFValues == {PInt(0), PInt(1), PInt(-1), PInt(2), PMono(1, 1), PMono(-3, 1)}
\* coefficients of the two-sequence form: 0, 1, -2 and 2^32
ABValues == {PInt(0), PInt(1), PInt(-2), PMono(1, 1)}

\* pc, fn: the call in progress and where it stands; a, b: its coefficient
\* arguments; ia, ib: the iterators; hm1, km1, h0, k0: the running convergents;
\* inner: the return statement the helper left by; ret: the return statement
\* of the public function; result: the value returned;
\* x, N: the arguments of the exponential functions; n, t, r: the loop
\* counter, the running term and the running sum of _exp_N_
VARIABLES pc, fn, a, b, ia, ib, hm1, km1, h0, k0, inner, ret, result,
          x, N, n, t, r
\* gsl_handler: the error handler of GSL, one for the whole process;
\* base: the handler the application installed; th: every thread's call of a
\* kernel-backed function; process: running or aborted
VARIABLES gsl_handler, base, th, process
\* ttree: the TTree a call of add_branch is given; frame: the locals of that
\* call
VARIABLES ttree, frame
\* calls: the calls a recursive function has still to make; last: the call it
\* made last, with the return statement that call took
VARIABLES calls, last

cfvars == <<a, b, ia, ib, hm1, km1, h0, k0, inner>>
expvars == <<x, N, n, t, r>>
gslvars == <<gsl_handler, base, th, process>>
treevars == <<ttree, frame>>
recvars == <<calls, last>>
vars == <<pc, fn, a, b, ia, ib, hm1, km1, h0, k0, inner, ret, result,
          x, N, n, t, r, gsl_handler, base, th, process, ttree, frame,
          calls, last>>

\* --------------------------------------------------------------------------
\* the continued-fraction evaluators
\* --------------------------------------------------------------------------
\* s_zero ( x ): the zero test of Ostap::Math::Zero<double>
s_zero(v) == PIsZero(v)

\* std::abs ( hp1 ) > s_large || std::abs ( kp1 ) > s_large
TooLarge(hp1, kp1) ==
  PGreater(PAbs(hp1), s_large) \/ PGreater(PAbs(kp1), s_large)

\* mutant: only the newest convergents are rescaled
Rescale_newest(st) ==
  [hm1 |-> st.hm1, km1 |-> st.km1,
   h0  |-> ldexp(st.h0, s_imax),  k0  |-> ldexp(st.k0, s_imax)]

\* the four std::ldexp ( . , s_imax ) of the rescaling block
Rescale(st) ==
  [hm1 |-> ldexp(st.hm1, s_imax), km1 |-> ldexp(st.km1, s_imax),
   h0  |-> ldexp(st.h0, s_imax),  k0  |-> ldexp(st.k0, s_imax)]

\* the shift of the convergents and the rescaling that end every loop body
Advance(st, hp1, kp1) ==
  LET s == [hm1 |-> st.h0, km1 |-> st.k0, h0 |-> hp1, k0 |-> kp1]
  IN  IF TooLarge(hp1, kp1) THEN Rescale(s) ELSE s

\* loop body of _simple_cf_ ( begin , end ): hp1 = a * h0 + hm1
simple_cf_body(st, av) ==
  Advance(st, PAdd(PMul(av, st.h0), st.hm1), PAdd(PMul(av, st.k0), st.km1))

\* loop body of _simple_cf_b_ ( begin , end ): hp1 = h0 + b * hm1
simple_cf_b_body(st, bv) ==
  Advance(st, PAdd(st.h0, PMul(bv, st.hm1)), PAdd(st.k0, PMul(bv, st.km1)))

\* loop body of _simple_cf_ ( ab , ae , bb , be ): hp1 = b * h0 + a * hm1
simple_cf_ab_body(st, av, bv) ==
  Advance(st, PAdd(PMul(bv, st.h0), PMul(av, st.hm1)),
              PAdd(PMul(bv, st.k0), PMul(av, st.km1)))

\* mutant: the initial convergents of the other two evaluators
simple_cf_init_swapped ==
  [hm1 |-> PInt(1), km1 |-> PInt(0), h0 |-> PInt(0), k0 |-> PInt(1)]

\* initial convergents of _simple_cf_ ( begin , end )
simple_cf_init == [hm1 |-> PInt(0), km1 |-> PInt(1), h0 |-> PInt(1), k0 |-> PInt(0)]
\* mutant: the initial convergents of the one-sequence _simple_cf_
simple_cf_ab_init_swapped ==
  [hm1 |-> PInt(0), km1 |-> PInt(1), h0 |-> PInt(1), k0 |-> PInt(0)]

\* initial convergents of _simple_cf_b_ and of the two-sequence _simple_cf_
simple_cf_b_init == [hm1 |-> PInt(1), km1 |-> PInt(0), h0 |-> PInt(0), k0 |-> PInt(1)]
simple_cf_ab_init == [hm1 |-> PInt(1), km1 |-> PInt(0), h0 |-> PInt(0), k0 |-> PInt(1)]

St == [hm1 |-> hm1, km1 |-> km1, h0 |-> h0, k0 |-> k0]
SetSt(s) == hm1' = s.hm1 /\ km1' = s.km1 /\ h0' = s.h0 /\ k0' = s.k0


\* std::numeric_limits<double>::max () = 2^1024 - 2^971
DBL_MAX == [off |-> 30, cs |-> <<-2048, 0, 1>>, neg |-> FALSE]

\* the conversion of a long double to the double a function returns: a value
\* beyond the range of double becomes an infinity
ToDouble(v) ==
  IF IsFin(v) /\ PGreater(PAbs(v.n), PMul(DBL_MAX, v.d))
  THEN Inf(PNegative(v.n))
  ELSE v

\* number of threads that call kernel-backed functions
NumThreads == 2
Threads == 1..NumThreads
\* a thread outside every call
ThreadIdle ==
  [pc |-> "idle", fn |-> "none", old |-> "none", ierror |-> "GSL_SUCCESS",
   result |-> NaN]

\* no call in progress: every local is at its resting value
\* no tree and no call of add_branch
NoTree == [k |-> "none"]
NoFrame == [k |-> "none"]

\* no call of a recursive function was made
NoCall == [k |-> "none"]

Idle ==
  /\ ttree = NoTree /\ frame = NoFrame
  /\ calls = <<>> /\ last = NoCall
  /\ gsl_handler = "default" /\ base = "default" /\ process = "running"
  /\ th = [i \in Threads |-> ThreadIdle]
  /\ pc = "idle" /\ fn = "none" /\ a = <<>> /\ b = <<>> /\ ia = 1 /\ ib = 1
  /\ hm1 = PZero /\ km1 = PZero /\ h0 = PZero /\ k0 = PZero
  /\ inner = "none" /\ ret = "none" /\ result = NaN
  /\ x = PZero /\ N = 0 /\ n = 0 /\ t = Fin(PZero) /\ r = Fin(PZero)

Init == Idle

\* double continued_fraction_simple ( a )
continued_fraction_simple(aa) ==
  /\ pc = "idle"
  /\ fn' = "simple" /\ a' = aa
  /\ IF aa = <<>>
     THEN /\ ret' = "empty" /\ result' = Fin(PInt(0)) /\ pc' = "done"
          /\ UNCHANGED <<hm1, km1, h0, k0>>
     ELSE /\ ret' = "call" /\ pc' = "loop" /\ SetSt(simple_cf_init)
          /\ UNCHANGED result
  /\ UNCHANGED <<b, ia, ib, inner>>
  /\ UNCHANGED <<expvars, gslvars, treevars, recvars>>

\* one pass of the loop of _simple_cf_ ( begin , end )
simple_cf_step ==
  /\ pc = "loop" /\ fn = "simple" /\ ia <= Len(a)
  /\ SetSt(simple_cf_body(St, a[ia]))
  /\ ia' = ia + 1
  /\ UNCHANGED <<pc, fn, a, b, ib, inner, ret, result>>
  /\ UNCHANGED <<expvars, gslvars, treevars, recvars>>

\* return h0 / k0 of _simple_cf_ ( begin , end ), returned as a double
simple_cf_return ==
  /\ pc = "loop" /\ fn = "simple" /\ ia > Len(a)
  /\ inner' = "quotient" /\ result' = ToDouble(Div(h0, k0)) /\ pc' = "done"
  /\ UNCHANGED <<fn, a, b, ia, ib, hm1, km1, h0, k0, ret>>
  /\ UNCHANGED <<expvars, gslvars, treevars, recvars>>

\* double continued_fraction_b ( b )
continued_fraction_b(bb) ==
  /\ pc = "idle"
  /\ fn' = "b" /\ b' = bb
  /\ IF bb = <<>>
     THEN /\ ret' = "empty" /\ result' = Fin(PInt(0)) /\ pc' = "done"
          /\ UNCHANGED <<hm1, km1, h0, k0>>
     ELSE IF s_zero(bb[1])
     THEN /\ ret' = "zero_front" /\ result' = Fin(PInt(0)) /\ pc' = "done"
          /\ UNCHANGED <<hm1, km1, h0, k0>>
     ELSE /\ ret' = "call" /\ pc' = "loop" /\ SetSt(simple_cf_b_init)
          /\ UNCHANGED result
  /\ UNCHANGED <<a, ia, ib, inner>>
  /\ UNCHANGED <<expvars, gslvars, treevars, recvars>>

\* one pass of the loop of _simple_cf_b_ ( begin , end )
simple_cf_b_step ==
  /\ pc = "loop" /\ fn = "b" /\ ib <= Len(b)
  /\ SetSt(simple_cf_b_body(St, b[ib]))
  /\ ib' = ib + 1
  /\ UNCHANGED <<pc, fn, a, b, ia, inner, ret, result>>
  /\ UNCHANGED <<expvars, gslvars, treevars, recvars>>

\* return h0 / k0 of _simple_cf_b_ ( begin , end ), returned as a double
simple_cf_b_return ==
  /\ pc = "loop" /\ fn = "b" /\ ib > Len(b)
  /\ inner' = "quotient" /\ result' = ToDouble(Div(h0, k0)) /\ pc' = "done"
  /\ UNCHANGED <<fn, a, b, ia, ib, hm1, km1, h0, k0, ret>>
  /\ UNCHANGED <<expvars, gslvars, treevars, recvars>>

\* mutant: the helper has no test for an empty range
EmptyRange_never(aa, bstart, bb) == FALSE

\* if ( ab == ae || bb == be ) { return 0 ; } of the two-sequence _simple_cf_,
\* the b-range starting at index bstart
EmptyRange(aa, bstart, bb) == aa = <<>> \/ bstart > Len(bb)

\* mutant: every longer b is taken as the b0-prefixed form
Shape_lenient(aa, bb) ==
  IF Len(aa) = Len(bb) THEN "equal"
  ELSE IF Len(aa) < Len(bb) THEN "front"
  ELSE "nan"

\* the return statement continued_fraction ( a , b ) selects by the sizes
Shape(aa, bb) ==
  IF Len(aa) = Len(bb) THEN "equal"
  ELSE IF Len(aa) + 1 = Len(bb) THEN "front"
  ELSE "nan"

\* double continued_fraction ( a , b ), up to the first pass of the loop of
\* _simple_cf_ ( ab , ae , bb , be ); with "front" the b-iterator starts at
\* b.begin() + 1 and b.front() is added to what the helper returns
continued_fraction(aa, bb) ==
  /\ pc = "idle"
  /\ fn' = "ab" /\ a' = aa /\ b' = bb
  /\ ret' = Shape(aa, bb)
  /\ ia' = 1
  /\ IF Shape(aa, bb) = "nan"
     THEN /\ result' = NaN /\ pc' = "done"
          /\ UNCHANGED <<ib, hm1, km1, h0, k0, inner>>
     ELSE LET bstart == IF Shape(aa, bb) = "front" THEN 2 ELSE 1
          IN  /\ ib' = bstart
              /\ IF EmptyRange(aa, bstart, bb)
                 THEN /\ inner' = "empty" /\ pc' = "done"
                      /\ result' = IF Shape(aa, bb) = "front"
                                   THEN ToDouble(VAdd(Fin(bb[1]), Fin(PInt(0))))
                                   ELSE Fin(PInt(0))
                      /\ UNCHANGED <<hm1, km1, h0, k0>>
                 ELSE /\ pc' = "loop" /\ SetSt(simple_cf_ab_init)
                      /\ UNCHANGED <<inner, result>>
  /\ UNCHANGED <<expvars, gslvars, treevars, recvars>>

\* one pass of the loop of _simple_cf_ ( ab , ae , bb , be )
simple_cf_ab_step ==
  /\ pc = "loop" /\ fn = "ab" /\ ia <= Len(a) /\ ib <= Len(b)
  /\ SetSt(simple_cf_ab_body(St, a[ia], b[ib]))
  /\ ia' = ia + 1 /\ ib' = ib + 1
  /\ UNCHANGED <<pc, fn, a, b, inner, ret, result>>
  /\ UNCHANGED <<expvars, gslvars, treevars, recvars>>

\* return h0 / k0 of _simple_cf_ ( ab , ae , bb , be ) and the return of
\* continued_fraction that called it
simple_cf_ab_return ==
  /\ pc = "loop" /\ fn = "ab" /\ ~(ia <= Len(a) /\ ib <= Len(b))
  /\ inner' = "quotient" /\ pc' = "done"
  /\ result' = IF ret = "front"
               THEN ToDouble(VAdd(Fin(b[1]), Div(h0, k0)))
               ELSE ToDouble(Div(h0, k0))
  /\ UNCHANGED <<fn, a, b, ia, ib, hm1, km1, h0, k0, ret>>
  /\ UNCHANGED <<expvars, gslvars, treevars, recvars>>

\* a finished call is forgotten
Reset ==
  /\ pc = "done"
  /\ pc' = "idle" /\ fn' = "none" /\ a' = <<>> /\ b' = <<>> /\ ia' = 1 /\ ib' = 1
  /\ hm1' = PZero /\ km1' = PZero /\ h0' = PZero /\ k0' = PZero
  /\ inner' = "none" /\ ret' = "none" /\ result' = NaN
  /\ x' = PZero /\ N' = 0 /\ n' = 0 /\ t' = Fin(PZero) /\ r' = Fin(PZero)
  /\ ttree' = NoTree /\ frame' = NoFrame
  /\ calls' = <<>> /\ last' = NoCall
  /\ UNCHANGED gslvars

\* a call is made when none is in progress
CallCF ==
  /\ pc = "idle"
  /\ \/ \E aa \in SeqsUpTo(CFValues, MaxLen) : continued_fraction_simple(aa)
     \/ \E bb \in SeqsUpTo(CFValues, MaxLen) : continued_fraction_b(bb)
     \/ \E aa \in SeqsUpTo(ABValues, MaxLenAB), bb \in SeqsUpTo(ABValues, MaxLenAB) :
          continued_fraction(aa, bb)

CFNext ==
  \/ CallCF
  \/ simple_cf_step
  \/ simple_cf_return
  \/ simple_cf_b_step
  \/ simple_cf_b_return
  \/ simple_cf_ab_step
  \/ simple_cf_ab_return
  \/ Reset

SpecCF == Init /\ [][CFNext]_vars


\* --------------------------------------------------------------------------
\* the exponential partial sum and the reduced exponents
\* --------------------------------------------------------------------------
\* largest number of terms N given to exp_N and exp_rel_N
MaxN == 6

\* arguments x of exp_N: 0, 1, -1, 2, -3, 2^-32, 2^256, -2^256, 3 * 2^256,
\* 2^512 and -2^512
ExpValues ==
  {PInt(0), PInt(1), PInt(-1), PInt(2), PInt(-3), PMono(1, -1),
   PMono(1, 8), PMono(-1, 8), PMono(3, 8), PMono(1, 16), PMono(-1, 16)}
\* arguments x of exprel and exp_rel_N: these, -709 and 710
ExprelValues == ExpValues \cup {PInt(-709), PInt(710)}

\* a value of the C library that the model leaves uninterpreted: f applied
\* to y (and N); finite, and not NaN
Sym(f, y, m) == [k |-> "sym", f |-> f, y |-> y, N |-> m]

\* const long double s_infinity = 0.9 * std::numeric_limits<double>::max ()
s_infinity == Reduce(Div(PScale(9, DBL_MAX), PInt(10)))

\* GSL_LOG_DBL_MIN = -708.39641853226408 and GSL_LOG_DBL_MAX = 709.78271289338397
\* of gsl_machine.h, to three decimals
GSL_LOG_DBL_MIN == Div(PInt(-708396), PInt(1000))
GSL_LOG_DBL_MAX == Div(PInt(709782), PInt(1000))

\* arithmetic of type double: every operation overflows to an infinity
DAdd(v, w) == ToDouble(VAdd(v, w))
DMul(v, w) == ToDouble(VMul(v, w))
DDiv(v, w) == ToDouble(VDiv(v, w))

\* the closed forms of exp_N for N = 0, 1, 2, 3, in double arithmetic
exp_N_closed(xx, NN) ==
  LET one == Fin(PInt(1))
      half == Div(PInt(1), PInt(2))
      xv == Fin(xx)
  IN  IF NN = 0 THEN one
      ELSE IF NN = 1 THEN DAdd(one, xv)
      ELSE IF NN = 2 THEN DAdd(one, DMul(xv, DAdd(one, DMul(xv, half))))
      ELSE DAdd(one, DMul(xv, DAdd(one,
                 DMul(xv, DAdd(half, DDiv(xv, Fin(PInt(6))))))))

\* double exp_N ( x , N ), up to the first pass of the loop of _exp_N_
exp_N(xx, NN) ==
  /\ pc = "idle"
  /\ fn' = "exp_N" /\ x' = xx /\ N' = NN
  /\ IF NN <= 3
     THEN /\ result' = exp_N_closed(xx, NN) /\ ret' = "closed" /\ pc' = "done"
          /\ UNCHANGED <<n, t, r>>
     ELSE IF s_zero(xx)
     THEN /\ result' = Fin(PInt(1)) /\ ret' = "zero" /\ pc' = "done"
          /\ UNCHANGED <<n, t, r>>
     ELSE /\ r' = Fin(PInt(1)) /\ t' = Fin(PInt(1)) /\ n' = 1
          /\ ret' = "call" /\ pc' = "sum"
          /\ UNCHANGED result
  /\ UNCHANGED <<cfvars, gslvars, treevars, recvars>>

\* the running sum exceeds the sentinel: if ( r > s_infinity )
Clamped(rr) == VGreater(rr, s_infinity)

\* one pass of the loop of _exp_N_, in long double arithmetic
exp_N_step ==
  /\ pc = "sum" /\ n <= N
  /\ LET t1 == VDiv(VMul(t, Fin(x)), Fin(PInt(n)))
         r1 == VAdd(r, t1)
     IN  /\ t' = t1 /\ r' = r1
         /\ IF Clamped(r1)
            THEN /\ result' = ToDouble(s_infinity) /\ ret' = "clamp"
                 /\ pc' = "done" /\ UNCHANGED n
            ELSE /\ n' = n + 1 /\ UNCHANGED <<pc, ret, result>>
  /\ UNCHANGED <<fn, x, N>>
  /\ UNCHANGED <<cfvars, gslvars, treevars, recvars>>

\* return r of _exp_N_, returned by exp_N as a double
exp_N_return ==
  /\ pc = "sum" /\ n > N
  /\ result' = ToDouble(r) /\ ret' = "sum" /\ pc' = "done"
  /\ UNCHANGED <<fn, x, N, n, t, r>>
  /\ UNCHANGED <<cfvars, gslvars, treevars, recvars>>

\* std::expm1 ( y ): exactly y at a zero
std_expm1(y) == IF PIsZero(y) THEN Fin(y) ELSE Sym("expm1", y, 0)

\* std::exp ( y ) as the double it is returned as: exactly 1 at zero, beyond
\* the range of double above GSL_LOG_DBL_MAX = log ( DBL_MAX )
std_exp(y) ==
  IF PIsZero(y) THEN Fin(PInt(1))
  ELSE IF VGreater(Fin(y), GSL_LOG_DBL_MAX) THEN Inf(FALSE)
  ELSE Sym("exp", y, 0)

\* v / y for a library value v
SymDiv(v, y) ==
  IF v.k = "sym" THEN Sym(v.f \o "/y", y, 0)
  ELSE IF v.k = "inf" THEN v
  ELSE ToDouble(VDiv(v, Fin(y)))

\* the value and the branch of exprel ( x )
exprel_value(xx) ==
  IF VLess(Fin(xx), GSL_LOG_DBL_MIN)
  THEN [v |-> ToDouble(VDiv(Fin(PInt(-1)), Fin(xx))), ret |-> "below"]
  ELSE IF VGreater(Fin(xx), GSL_LOG_DBL_MAX)
  THEN [v |-> ToDouble(s_infinity), ret |-> "above"]
  ELSE IF PLess(PAbs(xx), PInt(1))
  THEN [v |-> SymDiv(std_expm1(xx), xx), ret |-> "expm1"]
  ELSE [v |-> Sym("(exp-1)/y", xx, 0), ret |-> "exp"]

\* double exprel ( x )
exprel(xx) ==
  /\ pc = "idle"
  /\ fn' = "exprel" /\ x' = xx
  /\ result' = exprel_value(xx).v /\ ret' = exprel_value(xx).ret
  /\ pc' = "done"
  /\ UNCHANGED <<N, n, t, r>>
  /\ UNCHANGED <<cfvars, gslvars, treevars, recvars>>

\* double exp_rel_N ( x , N ); the value of the continued fraction of
\* _exp_rel_N_ is left uninterpreted
exp_rel_N(xx, NN) ==
  /\ pc = "idle"
  /\ fn' = "exp_rel_N" /\ x' = xx /\ N' = NN
  /\ IF NN = 0 THEN result' = std_exp(xx) /\ ret' = "exp0"
     ELSE IF NN = 1
     THEN result' = exprel_value(xx).v /\ ret' = "exprel"
     ELSE IF s_zero(xx) THEN result' = Fin(PInt(1)) /\ ret' = "zero"
     ELSE result' = Sym("_exp_rel_N_", xx, NN) /\ ret' = "cf"
  /\ pc' = "done"
  /\ UNCHANGED <<n, t, r>>
  /\ UNCHANGED <<cfvars, gslvars, treevars, recvars>>

\* a call is made when none is in progress
CallExp ==
  /\ pc = "idle"
  /\ \/ \E xx \in ExpValues, NN \in 0..MaxN : exp_N(xx, NN)
     \/ \E xx \in ExprelValues : exprel(xx)
     \/ \E xx \in ExprelValues, NN \in 0..MaxN : exp_rel_N(xx, NN)

ExpNext ==
  \/ CallExp
  \/ exp_N_step
  \/ exp_N_return
  \/ Reset

SpecExp == Init /\ [][ExpNext]_vars

\* --------------------------------------------------------------------------
\* the Pochhammer symbol: long double values m * 2^e with m an integer of any
\* size, [neg, ds] with ds its digits in base BigBase, lowest first
\* --------------------------------------------------------------------------
BigBits == 10
BigBase == 2 ^ BigBits

BigZero == [neg |-> FALSE, ds |-> <<>>]

\* the digits of f[lo..hi] plus the carry c, and the carry out of the top
RECURSIVE Carry(_, _, _, _)
Carry(f, lo, hi, c) ==
  IF lo > hi THEN [ds |-> <<>>, c |-> c]
  ELSE IF lo = hi
  THEN [ds |-> <<(f[lo] + c) % BigBase>>, c |-> (f[lo] + c) \div BigBase]
  ELSE LET mid == (lo + hi) \div 2
           low == Carry(f, lo, mid, c)
           high == Carry(f, mid + 1, hi, low.c)
       IN  [ds |-> low.ds \o high.ds, c |-> high.c]

RECURSIVE Digits(_)
Digits(c) == IF c = 0 THEN <<>> ELSE <<c % BigBase>> \o Digits(c \div BigBase)

Trim(ds) ==
  LET nz == {i \in 1..Len(ds) : ds[i] # 0}
  IN  IF nz = {} THEN <<>>
      ELSE SubSeq(ds, 1, CHOOSE i \in nz : \A j \in nz : i >= j)

\* the integer whose signed digits are f
BigNorm(f) ==
  LET up == Carry(f, 1, Len(f), 0)
      down == Carry([i \in 1..Len(f) |-> -f[i]], 1, Len(f), 0)
  IN  IF up.c >= 0
      THEN [neg |-> FALSE, ds |-> Trim(up.ds \o Digits(up.c))]
      ELSE [neg |-> TRUE, ds |-> Trim(down.ds \o Digits(down.c))]

BigInt(c) == BigNorm(<<c>>)
BigIsZero(p) == p.ds = <<>>
BigSign(p) == IF BigIsZero(p) THEN 0 ELSE IF p.neg THEN -1 ELSE 1
BigDigit(p, i) ==
  IF i < 1 \/ i > Len(p.ds) THEN 0 ELSE IF p.neg THEN -p.ds[i] ELSE p.ds[i]
BigNeg(p) == IF BigIsZero(p) THEN p ELSE [p EXCEPT !.neg = ~p.neg]

BigAdd(p, q) ==
  BigNorm([i \in 1..Max2(Len(p.ds), Len(q.ds)) |-> BigDigit(p, i) + BigDigit(q, i)])

\* the signed digit of weight BigBase^(d-1) of p * q: the sum of the
\* products of the digits i and d + 1 - i for i in lo..hi
RECURSIVE BigConv(_, _, _, _, _)
BigConv(p, q, d, lo, hi) ==
  IF lo > hi THEN 0
  ELSE IF lo = hi THEN BigDigit(p, lo) * BigDigit(q, d + 1 - lo)
  ELSE LET mid == (lo + hi) \div 2
       IN  BigConv(p, q, d, lo, mid) + BigConv(p, q, d, mid + 1, hi)

BigMul(p, q) ==
  IF BigIsZero(p) \/ BigIsZero(q) THEN BigZero
  ELSE BigNorm([d \in 1..(Len(p.ds) + Len(q.ds) - 1) |->
                  BigConv(p, q, d, Max2(1, d + 1 - Len(q.ds)),
                          Min2(Len(p.ds), d))])

\* 2^j, j >= 0
BigPow2(j) ==
  [neg |-> FALSE,
   ds |-> [i \in 1..(j \div BigBits + 1) |->
             IF i = j \div BigBits + 1 THEN 2 ^ (j % BigBits) ELSE 0]]

\* long double values
LD(m, e) == [k |-> "ld", m |-> m, e |-> e]
LInt(c) == LD(BigInt(c), 0)
\* the integer m with u = m * 2^e, for an e not above the exponent of u
LAt(u, e) == BigMul(u.m, BigPow2(u.e - e))
LNeg(u) == LD(BigNeg(u.m), u.e)
LAdd(u, v) ==
  LET e == Min2(u.e, v.e) IN LD(BigAdd(LAt(u, e), LAt(v, e)), e)
LSub(u, v) == LAdd(u, LNeg(v))
LMul(u, v) == LD(BigMul(u.m, v.m), u.e + v.e)
LSign(u) == BigSign(u.m)
LLess(u, v) == LSign(LSub(v, u)) > 0
LEq(u, v) == LSign(LSub(v, u)) = 0
LAbs(u) == IF LSign(u) < 0 THEN LNeg(u) ELSE u
\* std::ldexp ( u , j )
Lldexp(u, j) == LD(u.m, u.e + j)

\* std::numeric_limits<double>::max () = ( 2^53 - 1 ) * 2^971
LD_DBL_MAX == LD(BigAdd(BigPow2(53), BigInt(-1)), 971)

\* the conversion of a long double to the double a function returns
LToDouble(u) ==
  IF LLess(LD_DBL_MAX, LAbs(u)) THEN Inf(LSign(u) < 0) ELSE u

\* arguments x of the Pochhammer functions: 0, 1, 2, 5, -1, -20, -100, 1/2,
\* -1/2, -33/2, -193/2 and -201/2
PochValues ==
  {LInt(0), LInt(1), LInt(2), LInt(5), LInt(-1), LInt(-20), LInt(-100),
   LD(BigInt(1), -1), LD(BigInt(-1), -1), LD(BigInt(-33), -1),
   LD(BigInt(-193), -1), LD(BigInt(-201), -1)}
\* orders N of the Pochhammer functions
PochOrders == {0, 1, 2, 3, 16, 17, 18, 33, 96, 97, 98}

\* s_zero ( x ) of a long double
s_zero_ld(u) == LSign(u) = 0

\* the product (x+lo)(x+lo+1)...(x+hi-1) and its derivative in x
RECURSIVE RisingPair(_, _, _)
RisingPair(xx, lo, hi) ==
  IF hi <= lo THEN [p |-> LInt(1), d |-> LInt(0)]
  ELSE IF hi = lo + 1 THEN [p |-> LAdd(xx, LInt(lo)), d |-> LInt(1)]
  ELSE LET mid == (lo + hi) \div 2
           l == RisingPair(xx, lo, mid)
           h == RisingPair(xx, mid, hi)
       IN  [p |-> LMul(l.p, h.p),
            d |-> LAdd(LMul(l.d, h.p), LMul(l.p, h.d))]

\* Pochhammer_<N>::evaluate ( x ) and ::value_with_derivative ( x ), 2 <= N <= 16:
\* the closed-form polynomial x(x+1)...(x+N-1) and its derivative
Pochhammer_evaluate(xx, NN) == RisingPair(xx, 0, NN).p
Pochhammer_value_with_derivative(xx, NN) ==
  [first |-> RisingPair(xx, 0, NN).p, second |-> RisingPair(xx, 0, NN).d]

\* std::exp ( std::lgamma ( x + N ) - std::lgamma ( x ) ): lgamma is the
\* logarithm of the absolute value of Gamma, so this is | Gamma(x+N) / Gamma(x) |
lgamma_ratio(xx, NN) == LAbs(RisingPair(xx, 0, NN).p)

\* p * ( psi ( x + N ) - psi ( x ) ): the difference of the digammas is the sum
\* of the 1 / ( x + k ), the logarithmic derivative of the product
psi_times(xx, NN) ==
  LET rp == RisingPair(xx, 0, NN)
  IN  IF LSign(rp.p) < 0 THEN LNeg(rp.d) ELSE rp.d

\* u < s_delta, s_delta = 1.e-8
BelowDelta(u) == LLess(LMul(u, LInt(100000000)), LInt(1))

\* std::abs ( x - Ostap::Math::round ( x ) ), for x a multiple of 2^-BigBits
round_distance(u) ==
  IF u.e >= 0 \/ BigIsZero(u.m) THEN LInt(0)
  ELSE LET f == u.m.ds[1] % (2 ^ (-u.e))
       IN  LD(BigInt(Min2(f, 2 ^ (-u.e) - f)), u.e)

use_dimidation(xx, NN) ==
  /\ BelowDelta(LSub(LInt(1 - NN), xx)) /\ BelowDelta(xx)
  /\ BelowDelta(round_distance(xx))

\* x < 0.5L - N
TooNegative(xx, NN) == LLess(xx, LAdd(LD(BigInt(1), -1), LInt(-NN)))

\* ( N % 2 ? -1 : 1 )
OddSign(NN) == IF NN % 2 = 1 THEN -1 ELSE 1

\* the return statement _pochhammer_ and _pochhammer2_ leave by
pochhammer_branch(xx, NN, zerotest) ==
  IF NN = 0 THEN "one" ELSE IF NN = 1 THEN "x"
  ELSE IF NN <= 16 THEN "closed"
  ELSE IF zerotest /\ s_zero_ld(xx) THEN "zero"
  ELSE IF TooNegative(xx, NN) THEN "reflect"
  ELSE IF 96 >= NN \/ use_dimidation(xx, NN) THEN "dimidation"
  ELSE "generic"

\* long double _pochhammer_ ( x , N )
RECURSIVE pochhammer_impl(_, _)
pochhammer_impl(xx, NN) ==
  LET br == pochhammer_branch(xx, NN, TRUE)
      K2 == NN \div 2
      K1 == IF NN % 2 = 1 THEN K2 + 1 ELSE K2
  IN  CASE br = "one" -> LInt(1)
        [] br = "x" -> xx
        [] br = "closed" -> Pochhammer_evaluate(xx, NN)
        [] br = "zero" -> LInt(0)
        [] br = "reflect" ->
             LMul(pochhammer_impl(LAdd(LAbs(xx), LInt(1 - NN)), NN),
                  LInt(OddSign(NN)))
        [] br = "dimidation" ->
             LMul(Lldexp(pochhammer_impl(Lldexp(xx, -1), K1), K1),
                  Lldexp(pochhammer_impl(Lldexp(LAdd(xx, LInt(1)), -1), K2), K2))
        [] OTHER -> lgamma_ratio(xx, NN)

\* RESULT _pochhammer2_ ( x , N )
RECURSIVE pochhammer2_impl(_, _)
pochhammer2_impl(xx, NN) ==
  LET br == pochhammer_branch(xx, NN, FALSE)
      K2 == NN \div 2
      K1 == IF NN % 2 = 1 THEN K2 + 1 ELSE K2
      rr == pochhammer2_impl(LAdd(LAbs(xx), LInt(1 - NN)), NN)
      r1 == pochhammer2_impl(Lldexp(xx, -1), K1)
      r2 == pochhammer2_impl(Lldexp(LAdd(xx, LInt(1)), -1), K2)
      p == LToDouble(lgamma_ratio(xx, NN))
  IN  CASE br = "one" -> [first |-> LInt(1), second |-> LInt(0)]
        [] br = "x" -> [first |-> xx, second |-> LInt(1)]
        [] br = "closed" -> Pochhammer_value_with_derivative(xx, NN)
        [] br = "reflect" ->
             [first |-> LMul(LInt(OddSign(NN)), rr.first),
              second |-> LMul(LInt(-OddSign(NN)), rr.second)]
        [] br = "dimidation" ->
             [first |-> Lldexp(LMul(r1.first, r2.first), NN),
              second |-> LAdd(Lldexp(LMul(r1.first, r2.second), NN - 1),
                              Lldexp(LMul(r1.second, r2.first), NN - 1))]
        [] OTHER -> [first |-> p, second |-> psi_times(xx, NN)]

\* long double __pochhammer__ ( x , N ) and the return statement it leaves by
pochhammer_wrap(xx, NN) ==
  IF NN = 0 THEN [v |-> LInt(1), ret |-> "one"]
  ELSE IF NN = 1 THEN [v |-> xx, ret |-> "x"]
  ELSE IF s_zero_ld(xx) THEN [v |-> LInt(0), ret |-> "zero"]
  ELSE IF LLess(LAdd(LD(BigInt(1), -1), LInt(-NN)), xx)
  THEN [v |-> pochhammer_impl(xx, NN), ret |-> pochhammer_branch(xx, NN, TRUE)]
  ELSE [v |-> LMul(pochhammer_impl(LAdd(LAbs(xx), LInt(1 - NN)), NN),
                   LInt(OddSign(NN))),
        ret |-> "reflect"]

\* double pochhammer ( x , n )
pochhammer(xx, NN) ==
  /\ pc = "idle"
  /\ fn' = "pochhammer" /\ x' = xx /\ N' = NN
  /\ \E w \in {pochhammer_wrap(xx, NN)} :
        result' = LToDouble(w.v) /\ ret' = w.ret
  /\ pc' = "done"
  /\ UNCHANGED <<n, t, r>>
  /\ UNCHANGED <<cfvars, gslvars, treevars, recvars>>

\* double rising_factorial ( x , n )
rising_factorial(xx, NN) ==
  /\ pc = "idle"
  /\ fn' = "rising_factorial" /\ x' = xx /\ N' = NN
  /\ \E w \in {pochhammer_wrap(xx, NN)} :
        result' = LToDouble(w.v) /\ ret' = w.ret
  /\ pc' = "done"
  /\ UNCHANGED <<n, t, r>>
  /\ UNCHANGED <<cfvars, gslvars, treevars, recvars>>

\* double falling_factorial ( x , n )
falling_factorial(xx, NN) ==
  /\ pc = "idle"
  /\ fn' = "falling_factorial" /\ x' = xx /\ N' = NN
  /\ \E w \in {pochhammer_wrap(LMul(LInt(-1), xx), NN)} :
        \E v \in {LMul(w.v, LInt(OddSign(NN)))} :
           result' = LToDouble(v) /\ ret' = w.ret
  /\ pc' = "done"
  /\ UNCHANGED <<n, t, r>>
  /\ UNCHANGED <<cfvars, gslvars, treevars, recvars>>

\* std::pair<double,double> pochhammer_with_derivative ( x , n )
pochhammer_with_derivative(xx, NN) ==
  /\ pc = "idle"
  /\ fn' = "pochhammer_with_derivative" /\ x' = xx /\ N' = NN
  /\ \E w \in {pochhammer2_impl(xx, NN)} :
        result' = [k |-> "pair", first |-> LToDouble(w.first),
                   second |-> LToDouble(w.second)]
  /\ ret' = pochhammer_branch(xx, NN, FALSE) /\ pc' = "done"
  /\ UNCHANGED <<n, t, r>>
  /\ UNCHANGED <<cfvars, gslvars, treevars, recvars>>

\* a call is made when none is in progress
CallPoch ==
  /\ pc = "idle"
  /\ \/ \E xx \in PochValues, NN \in PochOrders : pochhammer(xx, NN)
     \/ \E xx \in PochValues, NN \in PochOrders : rising_factorial(xx, NN)
     \/ \E xx \in PochValues, NN \in PochOrders : falling_factorial(xx, NN)
     \/ \E xx \in PochValues, NN \in PochOrders :
          pochhammer_with_derivative(xx, NN)

PochNext ==
  \/ CallPoch
  \/ Reset

SpecPoch == Init /\ [][PochNext]_vars

\* --------------------------------------------------------------------------
\* the recursion of _pochhammer_ and _pochhammer2_, call by call
\* --------------------------------------------------------------------------
\* a call: its arguments, the statement that makes it and the order N of the
\* call that makes it
Call(xx, NN, via, from) == [x |-> xx, N |-> NN, via |-> via, from |-> from]

\* std::abs ( x ) - N + 1
reflected(xx, NN) == LAdd(LAbs(xx), LInt(1 - NN))

\* mutant: both halves get the order N / 2 + 8
half_up_plus(NN) == NN \div 2 + 8

\* K2 = N / 2 and K1 = N % 2 ? K2 + 1 : K2
half_down(NN) == NN \div 2
half_up(NN) == IF NN % 2 = 1 THEN half_down(NN) + 1 ELSE half_down(NN)

\* the calls a call of _pochhammer_ ( zerotest ) or _pochhammer2_ makes, in
\* the order it makes them: the two operands of the product in _pochhammer_
\* are evaluated in either order, r1 and r2 of _pochhammer2_ in this order
pochhammer_calls(c, zerotest) ==
  LET br == pochhammer_branch(c.x, c.N, zerotest)
      c0 == Call(reflected(c.x, c.N), c.N, "reflect", c.N)
      c1 == Call(Lldexp(c.x, -1), half_up(c.N), "dimidation", c.N)
      c2 == Call(Lldexp(LAdd(c.x, LInt(1)), -1), half_down(c.N),
                 "dimidation", c.N)
  IN  IF br = "reflect" THEN {<<c0>>}
      ELSE IF br = "dimidation"
      THEN IF zerotest THEN {<<c1, c2>>, <<c2, c1>>} ELSE {<<c1, c2>>}
      ELSE {<<>>}

\* the call __pochhammer__ ( x , N ) makes, if any
wrap_calls(xx, NN) ==
  IF NN = 0 \/ NN = 1 \/ s_zero_ld(xx) THEN <<>>
  ELSE IF LLess(LAdd(LD(BigInt(1), -1), LInt(-NN)), xx)
  THEN <<Call(xx, NN, "wrap", NN)>>
  ELSE <<Call(reflected(xx, NN), NN, "wrap-reflect", NN)>>

\* every call the call c leads to, c included
RECURSIVE calls_below(_, _)
calls_below(c, zerotest) ==
  LET sub == CHOOSE q \in pochhammer_calls(c, zerotest) : TRUE
  IN  {c} \cup UNION {calls_below(sub[i], zerotest) : i \in 1..Len(sub)}

\* the calls of _pochhammer_ ( zerotest ) and of _pochhammer2_ the arguments
\* PochValues and PochOrders lead to
AllCalls ==
  [zerotest \in BOOLEAN |->
     UNION {IF zerotest
            THEN UNION {calls_below(wrap_calls(xx, NN)[i], TRUE) :
                          i \in 1..Len(wrap_calls(xx, NN))}
            ELSE calls_below(Call(xx, NN, "top", NN), FALSE) :
            xx \in PochValues, NN \in PochOrders}]

\* the return statement and the calls of every one of these calls
Dispatch ==
  [zerotest \in BOOLEAN |->
     [c \in AllCalls[zerotest] |->
        [br |-> pochhammer_branch(c.x, c.N, zerotest),
         subs |-> pochhammer_calls(c, zerotest)]]]

\* largest number of calls made until the recursion returns, n counted
RecursionLimit == 200

\* pochhammer ( x , n ): __pochhammer__ up to its call of _pochhammer_
pochhammer_enter(xx, NN) ==
  /\ pc = "idle"
  /\ fn' = "_pochhammer_" /\ x' = xx /\ N' = NN /\ n' = 0
  /\ calls' = wrap_calls(xx, NN) /\ last' = NoCall /\ pc' = "recursion"
  /\ UNCHANGED <<t, r, ret, result>>
  /\ UNCHANGED <<cfvars, gslvars, treevars>>

\* pochhammer_with_derivative ( x , n ) up to its call of _pochhammer2_
pochhammer2_enter(xx, NN) ==
  /\ pc = "idle"
  /\ fn' = "_pochhammer2_" /\ x' = xx /\ N' = NN /\ n' = 0
  /\ calls' = <<Call(xx, NN, "top", NN)>> /\ last' = NoCall
  /\ pc' = "recursion"
  /\ UNCHANGED <<t, r, ret, result>>
  /\ UNCHANGED <<cfvars, gslvars, treevars>>

\* the next call is made: it takes a return statement, and the calls of that
\* statement come before the calls still to make
pochhammer_call ==
  /\ pc = "recursion" /\ calls # <<>> /\ n < RecursionLimit
  /\ \E sub \in Dispatch[fn = "_pochhammer_"][Head(calls)].subs :
        calls' = sub \o Tail(calls)
  /\ last' = [k |-> "call", call |-> Head(calls),
               br |-> Dispatch[fn = "_pochhammer_"][Head(calls)].br,
               seen |-> (IF last = NoCall THEN {} ELSE last.seen) \cup
                        {Dispatch[fn = "_pochhammer_"][Head(calls)].br}]
  /\ n' = n + 1
  /\ UNCHANGED <<pc, fn, x, N, t, r, ret, result>>
  /\ UNCHANGED <<cfvars, gslvars, treevars>>

\* no call is left to make: the function returns; the value is that of
\* pochhammer and pochhammer_with_derivative above
pochhammer_return ==
  /\ pc = "recursion" /\ calls = <<>>
  /\ pc' = "done" /\ ret' = "returned" /\ result' = Sym(fn, x, N)
  /\ UNCHANGED <<fn, x, N, n, t, r>>
  /\ UNCHANGED <<cfvars, gslvars, treevars, recvars>>

\* a call is made when none is in progress
CallRec ==
  /\ pc = "idle"
  /\ \/ \E xx \in PochValues, NN \in PochOrders : pochhammer_enter(xx, NN)
     \/ \E xx \in PochValues, NN \in PochOrders : pochhammer2_enter(xx, NN)

RecNext ==
  \/ CallRec
  \/ pochhammer_call
  \/ pochhammer_return
  \/ Reset

\* a function that has a call to make makes it, and one that has none returns
SpecRec ==
  /\ Init /\ [][RecNext]_vars
  /\ WF_vars(pochhammer_call) /\ WF_vars(pochhammer_return)

\* --------------------------------------------------------------------------
\* the regularized incomplete gamma function gamma_star
\* --------------------------------------------------------------------------
\* the parameter a is counted in units of 1 / GammaUnit
GammaUnit == 100000
\* 1.e-4 in these units
GammaTolerance == 10
\* largest | a | given to gamma_star
MaxA == 3

\* parameters a: every integer up to MaxA in absolute value, each shifted
\* by 0, 5.e-5, 1.e-4 and 1/2 to either side
GammaShifts == {0, 5, -5, 10, -10, 50000}
GammaParams == {j * GammaUnit + s : j \in (-MaxA)..MaxA, s \in GammaShifts}
\* arguments x: 0, 1, 2, -2, 1.1 and 3
GammaArgs ==
  {Fin(PInt(0)), Fin(PInt(1)), Fin(PInt(2)), Fin(PInt(-2)),
   Div(PInt(11), PInt(10)), Fin(PInt(3))}

\* Ostap::Math::isint ( a ) and Ostap::Math::round ( a )
isint(au) == au % GammaUnit = 0
round(au) == (2 * au + GammaUnit) \div (2 * GammaUnit)

\* std::pow ( y , j ), j >= 0, of a long double
RECURSIVE std_pow(_, _)
std_pow(y, j) == IF j = 0 THEN Fin(PInt(1)) ELSE VMul(y, std_pow(y, j - 1))

\* mutant: the closed form is taken next to every integer
gamma_star_closed_any(au) ==
  isint(au) \/ AbsInt(au - GammaUnit * round(au)) < GammaTolerance

\* mutant: the closed form is taken for the negative integers only
gamma_star_closed_negative(au) ==
  /\ isint(au) \/ AbsInt(au - GammaUnit * round(au)) < GammaTolerance
  /\ round(au) < 0

\* the closed form is returned: a is an integer or within 1.e-4 of one, and
\* that integer is not positive
gamma_star_closed(au) ==
  /\ isint(au) \/ AbsInt(au - GammaUnit * round(au)) < GammaTolerance
  /\ round(au) <= 0

\* mutant: the series with the factor exp ( -x ) is taken from x = 1.1 on
gamma_star_series_inclusive(xv) ==
  IF ~VLess(xv, Div(PInt(11), PInt(10))) THEN "_gamma_star_2_" ELSE "_gamma_star_"

\* the series taken: 1.1 < x ? _gamma_star_2_ : _gamma_star_
gamma_star_series(xv) ==
  IF VLess(Div(PInt(11), PInt(10)), xv) THEN "_gamma_star_2_" ELSE "_gamma_star_"

\* double gamma_star ( double a , double x ), up to the call of a series
gamma_star(au, xv) ==
  /\ pc = "idle"
  /\ fn' = "gamma_star" /\ a' = au /\ x' = xv
  /\ IF gamma_star_closed(au)
     THEN /\ result' = ToDouble(VDiv(Fin(PInt(1)), std_pow(xv, AbsInt(round(au)))))
          /\ ret' = "closed" /\ pc' = "done"
     ELSE /\ pc' = gamma_star_series(xv) /\ ret' = "call" /\ UNCHANGED result
  /\ UNCHANGED <<b, ia, ib, hm1, km1, h0, k0, inner>>
  /\ UNCHANGED <<N, n, t, r, gslvars, treevars, recvars>>

\* double gamma_star ( int n , double x ), up to the call of a series
gamma_star_int(nn, xv) ==
  /\ pc = "idle"
  /\ fn' = "gamma_star_int" /\ a' = nn * GammaUnit /\ x' = xv
  /\ IF nn <= 0
     THEN /\ result' = ToDouble(VDiv(Fin(PInt(1)), std_pow(xv, AbsInt(nn))))
          /\ ret' = "closed" /\ pc' = "done"
     ELSE /\ pc' = gamma_star_series(xv) /\ ret' = "call" /\ UNCHANGED result
  /\ UNCHANGED <<b, ia, ib, hm1, km1, h0, k0, inner>>
  /\ UNCHANGED <<N, n, t, r, gslvars, treevars, recvars>>

\* the series returns; its value is left uninterpreted
gamma_star_return ==
  /\ pc \in {"_gamma_star_", "_gamma_star_2_"}
  /\ result' = Sym(pc, x, a) /\ ret' = "series" /\ inner' = pc /\ pc' = "done"
  /\ UNCHANGED <<fn, a, b, ia, ib, hm1, km1, h0, k0>>
  /\ UNCHANGED <<expvars, gslvars, treevars, recvars>>

\* a call is made when none is in progress
CallGamma ==
  /\ pc = "idle"
  /\ \/ \E au \in GammaParams, xv \in GammaArgs : gamma_star(au, xv)
     \/ \E nn \in (-MaxA)..MaxA, xv \in GammaArgs : gamma_star_int(nn, xv)

GammaNext ==
  \/ CallGamma
  \/ gamma_star_return
  \/ Reset

SpecGamma == Init /\ [][GammaNext]_vars

\* --------------------------------------------------------------------------
\* the functions backed by the GSL kernels, called from several threads
\* --------------------------------------------------------------------------
\* the functions that construct a GSL_Error_Handler sentry before the kernel
WithSentry ==
  {"kummer", "igamma", "psi", "elliptic_K", "elliptic_E", "elliptic_F",
   "elliptic_E_phi"}
\* the functions that call the kernel and gsl_error without one
NoSentry ==
  {"elliptic_KZ", "elliptic_KmE", "bessel_Kn", "bessel_Kn_scaled",
   "bessel_Knu", "bessel_Knu_scaled"}
\* the status a kernel gsl_sf_..._e returns
GSLStatus == {"GSL_SUCCESS", "GSL_EDOM", "GSL_EUNDRFLW"}

MathUnchanged == UNCHANGED <<pc, fn, cfvars, ret, result, expvars, treevars, recvars>>

\* the application installs a handler of its own: gsl_set_error_handler
gsl_set_error_handler ==
  /\ process = "running" /\ gsl_handler = "default"
  /\ \A i \in Threads : th[i].pc = "idle"
  /\ gsl_handler' = "user" /\ base' = "user"
  /\ UNCHANGED <<th, process>> /\ MathUnchanged

\* thread i enters the kernel-backed function f
kernel_call(i, f) ==
  /\ process = "running" /\ th[i].pc = "idle"
  /\ th' = [th EXCEPT ![i] = [ThreadIdle EXCEPT
              !.fn = f,
              !.pc = IF f \in WithSentry THEN "sentry" ELSE "kernel"]]
  /\ UNCHANGED <<gsl_handler, base, process>> /\ MathUnchanged

\* Ostap::Math::GSL::GSL_Error_Handler sentry: the constructor installs the
\* handler of Ostap and keeps the one it replaces
sentry_ctor(i) ==
  /\ process = "running" /\ th[i].pc = "sentry"
  /\ th' = [th EXCEPT ![i].old = gsl_handler, ![i].pc = "kernel"]
  /\ gsl_handler' = "ostap"
  /\ UNCHANGED <<base, process>> /\ MathUnchanged

\* const int ierror = gsl_sf_..._e ( ... , &result )
kernel(i, e) ==
  /\ process = "running" /\ th[i].pc = "kernel"
  /\ th' = [th EXCEPT ![i].ierror = e,
                      ![i].pc = IF e = "GSL_SUCCESS" THEN "return" ELSE "gsl_error"]
  /\ UNCHANGED <<gsl_handler, base, process>> /\ MathUnchanged

\* if ( ierror ) { gsl_error ( ... ) ; ... }: the handler installed at this
\* moment is called, and the default handler of GSL calls abort ()
gsl_error(i) ==
  /\ process = "running" /\ th[i].pc = "gsl_error"
  /\ IF gsl_handler = "default"
     THEN /\ process' = "aborted"
          /\ th' = [th EXCEPT ![i].pc = "aborted"]
     ELSE /\ th' = [th EXCEPT ![i].pc = "return"]
          /\ UNCHANGED process
  /\ UNCHANGED <<gsl_handler, base>> /\ MathUnchanged

\* the value returned: quiet NaN on GSL_EDOM, result.val otherwise
kernel_value(f, e) == IF e = "GSL_EDOM" THEN NaN ELSE Sym("result.val", f, 0)

\* the return statement, and the destructor of the sentry, which installs the
\* handler it kept
kernel_return(i) ==
  /\ process = "running" /\ th[i].pc = "return"
  /\ th' = [th EXCEPT ![i].pc = "done",
                      ![i].result = kernel_value(th[i].fn, th[i].ierror)]
  /\ gsl_handler' = IF th[i].fn \in WithSentry THEN th[i].old ELSE gsl_handler
  /\ UNCHANGED <<base, process>> /\ MathUnchanged

\* the caller takes the result
kernel_done(i) ==
  /\ process = "running" /\ th[i].pc = "done"
  /\ th' = [th EXCEPT ![i] = ThreadIdle]
  /\ UNCHANGED <<gsl_handler, base, process>> /\ MathUnchanged

GSLNext ==
  \/ gsl_set_error_handler
  \/ \E i \in Threads, f \in WithSentry \cup NoSentry : kernel_call(i, f)
  \/ \E i \in Threads : sentry_ctor(i)
  \/ \E i \in Threads, e \in GSLStatus : kernel(i, e)
  \/ \E i \in Threads : gsl_error(i)
  \/ \E i \in Threads : kernel_return(i)
  \/ \E i \in Threads : kernel_done(i)

SpecGSL == Init /\ [][GSLNext]_vars

\* --------------------------------------------------------------------------
\* the Clenshaw recurrences: barrier_g and the monomial sums
\* --------------------------------------------------------------------------
\* largest orbital momentum l given to barrier_g
MaxL == 5
\* longest coefficient sequence given to the monomial sums
MaxPars == 3

\* arguments x: 0, 1, -1, 2, 3, 1/2 and -5/2
PolyArgs ==
  {LInt(0), LInt(1), LInt(-1), LInt(2), LInt(3), LD(BigInt(1), -1),
   LD(BigInt(-5), -1)}
\* coefficients: 0, 1, -2 and 3/2
PolyCoefs == {LInt(0), LInt(1), LInt(-2), LD(BigInt(3), -1)}

\* mutant: alpha_k = 2 k - 1
barrier_alpha_late(k, tt) == LInt(2 * k - 1)

\* the callbacks barrier_g gives to Clenshaw::term: alpha_k = 2 k + 1 and
\* beta_k = - t * t
barrier_alpha(k, tt) == LInt(2 * k + 1)
barrier_beta(k, tt) == LNeg(LMul(tt, tt))

\* Ostap::Math::Clenshaw::term ( x , N , alpha , beta , phi0 , phi1 ) from its
\* step k on: phi_(k+1) = alpha_k * phi_k + beta_k * phi_(k-1)
RECURSIVE Clenshaw_term(_, _, _, _, _)
Clenshaw_term(xx, k, NN, phi_0, phi_1) ==
  IF NN = 0 THEN phi_0
  ELSE IF k >= NN THEN phi_1
  ELSE Clenshaw_term(xx, k + 1, NN, phi_1,
                     LAdd(LMul(barrier_alpha(k, xx), phi_1),
                          LMul(barrier_beta(k, xx), phi_0)))

\* a value of type std::complex<double>
Complex(re, im) == [k |-> "complex", re |-> re, im |-> im]

\* the value of barrier_g ( x , l )
barrier_g_value(xx, ll) ==
  IF ll = 0 THEN Complex(LInt(1), LInt(0))
  ELSE IF ll = 1 THEN Complex(LInt(1), LNeg(xx))
  ELSE Complex(LToDouble(Clenshaw_term(xx, 1, ll, LInt(1), LInt(1))),
               LToDouble(Clenshaw_term(xx, 1, ll, LInt(0), LNeg(xx))))

\* std::complex<double> barrier_g ( x , l )
barrier_g(xx, ll) ==
  /\ pc = "idle"
  /\ fn' = "barrier_g" /\ x' = xx /\ N' = ll
  /\ result' = barrier_g_value(xx, ll)
  /\ ret' = (IF ll = 0 THEN "l0" ELSE IF ll = 1 THEN "l1" ELSE "term")
  /\ pc' = "done"
  /\ UNCHANGED <<n, t, r>>
  /\ UNCHANGED <<cfvars, gslvars, treevars, recvars>>

\* std::abs of a complex number: exact on the real axis
complex_abs(g) ==
  IF g.im.k = "ld" /\ g.re.k = "ld" /\ LSign(g.im) = 0 THEN LAbs(g.re)
  ELSE Sym("abs", g, 0)

\* std::pow ( x , l ) of a double
RECURSIVE pow_ld(_, _)
pow_ld(xx, ll) == IF ll = 0 THEN LInt(1) ELSE LMul(xx, pow_ld(xx, ll - 1))

\* the quotient u / v: exact when v is 1, uninterpreted otherwise
quotient_ld(u, v) ==
  IF v.k = "ld" /\ LEq(v, LInt(1)) THEN u ELSE Sym("/", <<u, v>>, 0)

\* double barrier_factor ( x , l )
barrier_factor(xx, ll) ==
  /\ pc = "idle"
  /\ fn' = "barrier_factor" /\ x' = xx /\ N' = ll
  /\ result' = quotient_ld(pow_ld(xx, ll), complex_abs(barrier_g_value(xx, ll)))
  /\ ret' = "quotient" /\ pc' = "done"
  /\ UNCHANGED <<n, t, r>>
  /\ UNCHANGED <<cfvars, gslvars, treevars, recvars>>

\* the coefficient sequences of the monomial sums
RECURSIVE ParsOfLen(_)
ParsOfLen(len) ==
  IF len = 0 THEN {<<>>}
  ELSE {Append(s, c) : s \in ParsOfLen(len - 1), c \in PolyCoefs}
PolyPars == UNION {ParsOfLen(len) : len \in 0..MaxPars}

\* Clenshaw's backward recurrence b_k = c_k + alpha b_(k+1) + beta b_(k+2) of
\* the monomial basis (alpha = x, beta = 0), from index i up to the last one:
\* the pair (b_i, b_(i+1))
RECURSIVE clenshaw_backward(_, _, _)
clenshaw_backward(pars, xx, i) ==
  IF i > Len(pars) THEN [b1 |-> LInt(0), b2 |-> LInt(0)]
  ELSE LET up == clenshaw_backward(pars, xx, i + 1)
       IN  [b1 |-> LAdd(pars[i], LMul(xx, up.b1)), b2 |-> up.b1]

\* the value of clenshaw_polynom ( pars , x ): c_0 phi_0 + b_1 phi_1 with
\* phi_0 = 1 and phi_1 = x
clenshaw_polynom_value(pars, xx) ==
  IF Len(pars) = 0 THEN LInt(0)
  ELSE LAdd(pars[1], LMul(xx, clenshaw_backward(pars, xx, 2).b1))

\* mutant: Horner's rule run from the first coefficient
RECURSIVE horner_a0_forward(_, _, _)
horner_a0_forward(pars, xx, i) ==
  IF i = 0 \/ i > Len(pars) THEN LInt(0)
  ELSE LAdd(pars[i], LMul(xx, horner_a0_forward(pars, xx, i - 1)))

\* Horner's rule from the last coefficient down to index i:
\* pars[i] + x * ( pars[i+1] + x * ( ... ) )
RECURSIVE horner_a0_from(_, _, _)
horner_a0_from(pars, xx, i) ==
  IF i > Len(pars) THEN LInt(0)
  ELSE LAdd(pars[i], LMul(xx, horner_a0_from(pars, xx, i + 1)))

\* Horner's rule from the first coefficient up to index i:
\* ( ... ( pars[1] * x + pars[2] ) * x + ... ) + pars[i]
RECURSIVE horner_aN_upto(_, _, _)
horner_aN_upto(pars, xx, i) ==
  IF i = 0 THEN LInt(0)
  ELSE LAdd(LMul(horner_aN_upto(pars, xx, i - 1), xx), pars[i])

\* double clenshaw_polynom ( pars , x )
clenshaw_polynom(pars, xx) ==
  /\ pc = "idle"
  /\ fn' = "clenshaw_polynom" /\ a' = pars /\ x' = xx
  /\ result' = LToDouble(clenshaw_polynom_value(pars, xx))
  /\ ret' = (IF Len(pars) = 0 THEN "empty" ELSE "sum") /\ pc' = "done"
  /\ UNCHANGED <<b, ia, ib, hm1, km1, h0, k0, inner>>
  /\ UNCHANGED <<N, n, t, r, gslvars, treevars, recvars>>

\* double horner_a0 ( pars , x )
horner_a0(pars, xx) ==
  /\ pc = "idle"
  /\ fn' = "horner_a0" /\ a' = pars /\ x' = xx
  /\ result' = LToDouble(horner_a0_from(pars, xx, 1))
  /\ ret' = (IF Len(pars) = 0 THEN "empty" ELSE "sum") /\ pc' = "done"
  /\ UNCHANGED <<b, ia, ib, hm1, km1, h0, k0, inner>>
  /\ UNCHANGED <<N, n, t, r, gslvars, treevars, recvars>>

\* double horner_aN ( pars , x )
horner_aN(pars, xx) ==
  /\ pc = "idle"
  /\ fn' = "horner_aN" /\ a' = pars /\ x' = xx
  /\ result' = LToDouble(horner_aN_upto(pars, xx, Len(pars)))
  /\ ret' = (IF Len(pars) = 0 THEN "empty" ELSE "sum") /\ pc' = "done"
  /\ UNCHANGED <<b, ia, ib, hm1, km1, h0, k0, inner>>
  /\ UNCHANGED <<N, n, t, r, gslvars, treevars, recvars>>

CallPoly ==
  \/ \E xx \in PolyArgs, ll \in 0..MaxL : barrier_g(xx, ll)
  \/ \E xx \in PolyArgs, ll \in 0..MaxL : barrier_factor(xx, ll)
  \/ \E pars \in PolyPars, xx \in PolyArgs : clenshaw_polynom(pars, xx)
  \/ \E pars \in PolyPars, xx \in PolyArgs : horner_a0(pars, xx)
  \/ \E pars \in PolyPars, xx \in PolyArgs : horner_aN(pars, xx)

PolyNext == CallPoly \/ Reset
SpecPoly == Init /\ [][PolyNext]_vars

\* --------------------------------------------------------------------------
\* Kinematics: the triangle function and the two-body phase space
\* --------------------------------------------------------------------------
\* arguments: 0, 1, 2, 3, -1, 3/2 and 2^608, whose square is beyond the range
\* of double
KinValues ==
  {Fin(PInt(0)), Fin(PInt(1)), Fin(PInt(2)), Fin(PInt(3)), Fin(PInt(-1)),
   Div(PInt(3), PInt(2)), Fin(PMono(1, 19))}

DSub(v, w) == ToDouble(VSub(v, w))
Two == Fin(PInt(2))

\* mutant: the last term is added
triangle_value_plus(aa, bb, cc) ==
  DAdd(DSub(DSub(DAdd(DAdd(DMul(aa, aa), DMul(bb, bb)), DMul(cc, cc)),
                 DMul(DMul(Two, aa), bb)),
            DMul(DMul(Two, bb), cc)),
       DMul(DMul(Two, aa), cc))

\* a * a + b * b + c * c - 2 * a * b - 2 * b * c - 2 * a * c in double
\* arithmetic, evaluated from left to right
triangle_value(aa, bb, cc) ==
  DSub(DSub(DSub(DAdd(DAdd(DMul(aa, aa), DMul(bb, bb)), DMul(cc, cc)),
                 DMul(DMul(Two, aa), bb)),
            DMul(DMul(Two, bb), cc)),
       DMul(DMul(Two, aa), cc))

\* double Ostap::Kinematics::triangle ( a , b , c )
triangle(aa, bb, cc) ==
  /\ pc = "idle"
  /\ fn' = "triangle" /\ a' = <<aa, bb, cc>>
  /\ result' = triangle_value(aa, bb, cc)
  /\ ret' = "value" /\ pc' = "done"
  /\ UNCHANGED <<b, ia, ib, hm1, km1, h0, k0, inner>>
  /\ UNCHANGED <<expvars, gslvars, treevars, recvars>>

\* std::max ( 0.0 , m )
std_max0(mm) == IF VLess(Fin(PZero), mm) THEN mm ELSE Fin(PZero)
\* v <= w (false when either is NaN)
VLeq(v, w) == VLess(v, w) \/ VEq(v, w)

\* the locals of phasespace2 up to lam
phasespace2_locals(xx, m1, m2) ==
  LET xm1 == std_max0(m1)
      xm2 == std_max0(m2)
      msq == DMul(xx, xx)
  IN  [xm1 |-> xm1, xm2 |-> xm2, sum |-> DAdd(xm1, xm2), msq |-> msq,
       lam |-> triangle_value(msq, DMul(xm1, xm1), DMul(xm2, xm2))]

\* s_inv8pi * std::sqrt ( lam ) / msq for 0 < lam: left uninterpreted for a
\* finite lam
phasespace2_positive(lam, msq) ==
  IF IsInf(lam) THEN DDiv(lam, msq) ELSE Sym("phasespace2", lam, msq)

\* double Ostap::Kinematics::phasespace2 ( x , m1 , m2 )
phasespace2(xx, m1, m2) ==
  /\ pc = "idle"
  /\ fn' = "phasespace2" /\ x' = xx /\ a' = <<m1, m2>>
  /\ LET l == phasespace2_locals(xx, m1, m2)
     IN  IF VLeq(xx, l.sum)
         THEN result' = Fin(PZero) /\ ret' = "threshold" /\ t' = t
         ELSE /\ t' = l.lam
              /\ IF VLess(Fin(PZero), l.lam)
                 THEN /\ result' = phasespace2_positive(l.lam, l.msq)
                      /\ ret' = "positive"
                 ELSE result' = Fin(PZero) /\ ret' = "fallback"
  /\ pc' = "done"
  /\ UNCHANGED <<b, ia, ib, hm1, km1, h0, k0, inner>>
  /\ UNCHANGED <<N, n, r, gslvars, treevars, recvars>>

CallKin ==
  \/ \E aa \in KinValues, bb \in KinValues, cc \in KinValues :
       triangle(aa, bb, cc)
  \/ \E xx \in KinValues, m1 \in KinValues, m2 \in KinValues :
       phasespace2(xx, m1, m2)

KinNext == CallKin \/ Reset
SpecKin == Init /\ [][KinNext]_vars

\* --------------------------------------------------------------------------
\* Kinematics: the three-body phase space, call by call
\* --------------------------------------------------------------------------
\* the total mass x: 3, 10 and NaN; the masses: 0, 1, 2 and -1
PS3Totals == {Fin(PInt(3)), Fin(PInt(10)), NaN}
PS3Masses == {Fin(PInt(0)), Fin(PInt(1)), Fin(PInt(2)), Fin(PInt(-1))}
\* largest number of times phasespace3 is let to call itself
PS3Limit == 3

\* s_zero ( xm ) of a double
s_zero_mass(v) == IsFin(v) /\ s_zero(v.n)

\* mutant: the swap of xm1 and xm2 after the swap of xm2 and xm3 is left out
ps3_swaps_short(ms) ==
  LET s1 == IF VLess(ms[1], ms[2]) THEN <<ms[2], ms[1], ms[3]>> ELSE ms
  IN  IF VLess(s1[2], s1[3]) THEN <<s1[1], s1[3], s1[2]>> ELSE s1

\* if ( xm1 < xm2 ) swap ; if ( xm2 < xm3 ) { swap ; if ( xm1 < xm2 ) swap }
ps3_swaps(ms) ==
  LET s1 == IF VLess(ms[1], ms[2]) THEN <<ms[2], ms[1], ms[3]>> ELSE ms
      s2 == IF VLess(s1[2], s1[3]) THEN <<s1[1], s1[3], s1[2]>> ELSE s1
  IN  IF VLess(s1[2], s1[3]) /\ VLess(s2[1], s2[2])
      THEN <<s2[2], s2[1], s2[3]>> ELSE s2

\* the locals of a call up to the test of the ordering: the masses after
\* std::max and after the zero tests, the flags and the two threshold tests
ps3_locals(c) ==
  LET m0 == <<std_max0(c.m[1]), std_max0(c.m[2]), std_max0(c.m[3])>>
      zero == [i \in 1..3 |-> s_zero_mass(m0[i])]
      xm == [i \in 1..3 |-> IF zero[i] THEN Fin(PZero) ELSE m0[i]]
  IN  [xm |-> xm, zero |-> zero,
       below0 |-> VLeq(c.x, DAdd(DAdd(m0[1], m0[2]), m0[3])),
       below |-> VLeq(c.x, DAdd(DAdd(xm[1], xm[2]), xm[3])),
       unordered |-> VLess(xm[1], xm[2]) \/ VLess(xm[2], xm[3])]

\* the return statement an ordered call above the threshold takes
ps3_case(zero) ==
  IF zero[1] /\ zero[2] /\ zero[3] THEN "massless"
  ELSE IF ~zero[1] /\ ~zero[2] /\ zero[3] THEN "one-zero"
  ELSE IF ~zero[1] /\ zero[2] /\ zero[3] THEN "two-zero"
  ELSE "elliptic"

\* double Ostap::Kinematics::phasespace3 ( x , m1 , m2 , m3 ) is called
phasespace3(xx, m1, m2, m3) ==
  /\ pc = "idle"
  /\ fn' = "phasespace3" /\ x' = xx /\ a' = <<m1, m2, m3>> /\ n' = 0
  /\ calls' = <<[x |-> xx, m |-> <<m1, m2, m3>>]>> /\ last' = NoCall
  /\ pc' = "phasespace3"
  /\ UNCHANGED <<b, ia, ib, hm1, km1, h0, k0, inner, ret, result>>
  /\ UNCHANGED <<N, t, r, gslvars, treevars>>

\* the body of a call: it returns 0 at a threshold, calls itself with the
\* masses reordered, or returns the value of one of the four formulae (left
\* uninterpreted); n counts the calls phasespace3 makes of itself
phasespace3_body ==
  /\ pc = "phasespace3"
  /\ \E l \in {ps3_locals(Head(calls))} :
       IF l.below0 \/ l.below
       THEN /\ pc' = "done" /\ ret' = "threshold" /\ result' = Fin(PZero)
            /\ calls' = <<>> /\ n' = n
            /\ last' = [k |-> "call", call |-> Head(calls), zero |-> l.zero,
                        xm |-> l.xm]
       ELSE IF l.unordered
       THEN /\ n < PS3Limit
            /\ calls' = <<[x |-> Head(calls).x, m |-> ps3_swaps(l.xm)]>>
            /\ n' = n + 1
            /\ last' = [k |-> "call", call |-> Head(calls), zero |-> l.zero,
                        xm |-> l.xm]
            /\ UNCHANGED <<pc, ret, result>>
       ELSE /\ pc' = "done" /\ ret' = ps3_case(l.zero)
            /\ result' = Sym(ps3_case(l.zero), Head(calls).x, l.xm)
            /\ calls' = <<>> /\ n' = n
            /\ last' = [k |-> "call", call |-> Head(calls), zero |-> l.zero,
                        xm |-> l.xm]
  /\ UNCHANGED <<fn, a, b, ia, ib, hm1, km1, h0, k0, inner, x, N, t, r>>
  /\ UNCHANGED <<gslvars, treevars>>

CallPS3 ==
  \E xx \in PS3Totals, m1 \in PS3Masses, m2 \in PS3Masses, m3 \in PS3Masses :
     phasespace3(xx, m1, m2, m3)

PS3Next ==
  \/ CallPS3
  \/ phasespace3_body
  \/ Reset

SpecPS3 == Init /\ [][PS3Next]_vars

\* --------------------------------------------------------------------------
\* Kinematics: the angle between two decay planes
\* --------------------------------------------------------------------------
\* std::numeric_limits<float>::max () = 2^128 - 2^104
FLT_MAX == PSub(PMono(1, 4), PMono(256, 3))
\* s_INVALID = -0.9 * std::numeric_limits<float>::max ()
s_INVALID == Div(PNeg(PScale(9, FLT_MAX)), PInt(10))

\* what the tensor expressions give for four four-vectors: the squared
\* lengths l1 and l2 of the normals, e.epsilon ( d1 , d2 , H , h1 , h2 , D ),
\* M.M2 (), var and p_H; a NaN comes from a NaN component of a vector
ChiLengths == {Fin(PInt(-1)), Fin(PInt(-4)), Fin(PInt(0)), NaN}
ChiEpsilons == {Fin(PInt(0)), Fin(PInt(1)), Fin(PInt(-8)), NaN}
ChiM2s == {Fin(PInt(1)), Fin(PInt(0)), NaN}
ChiVars == {Fin(PInt(0)), Fin(PInt(2)), Fin(PInt(100)), NaN}
ChiPHs == {Fin(PInt(4)), Fin(PInt(0)), NaN}
ChiArgs ==
  [l1 : ChiLengths, l2 : ChiLengths, eps : ChiEpsilons, M2 : ChiM2s,
   var : ChiVars, p_H : ChiPHs]

\* std::sqrt of a NaN, of a negative number and of the square of 0, 1, ... , 8
std_sqrt(v) ==
  IF IsNaN(v) \/ VLess(v, Fin(PZero)) THEN NaN
  ELSE Fin(PInt(CHOOSE q \in 0..8 : VEq(Fin(PInt(q * q)), v)))

\* double cosDecayAngleChi ( d1 , d2 , h1 , h2 )
cosDecayAngleChi(g) ==
  IF VLeq(Fin(PZero), g.l1) THEN s_INVALID
  ELSE IF VLeq(Fin(PZero), g.l2) THEN s_INVALID
  ELSE DDiv(VNeg(g.eps), std_sqrt(DMul(g.l1, g.l2)))

\* double sinDecayAngleChi ( d1 , d2 , h1 , h2 )
sinDecayAngleChi(g) ==
  IF VLeq(g.M2, Fin(PZero)) THEN s_INVALID
  ELSE IF VLeq(Fin(PZero), g.l1) THEN s_INVALID
  ELSE IF VLeq(Fin(PZero), g.l2) THEN s_INVALID
  ELSE IF VLeq(g.p_H, Fin(PZero)) THEN s_INVALID
  ELSE DDiv(g.var, std_sqrt(DMul(DMul(g.l1, g.l2), g.p_H)))

\* std::abs ( v ) > 1
OutOfRange(v) == VLess(Fin(PInt(1)), VAbs(v))

\* decayAngleChi ( d1 , d2 , h1 , h2 ) up to the test of cosChi
decayAngleChi(g) ==
  /\ pc = "idle"
  /\ fn' = "decayAngleChi" /\ t' = cosDecayAngleChi(g) /\ pc' = "cosChi"
  /\ last' = [k |-> "chi", args |-> g, evaluated |-> {"cosDecayAngleChi"}]
  /\ UNCHANGED <<a, b, ia, ib, hm1, km1, h0, k0, inner, ret, result>>
  /\ UNCHANGED <<x, N, n, r, gslvars, treevars, calls>>

\* if ( std::abs ( cosChi ) > 1 ) return s_INVALID ; sinChi = ...
decayAngleChi_cos ==
  /\ pc = "cosChi"
  /\ IF OutOfRange(t)
     THEN /\ pc' = "done" /\ ret' = "cosChi" /\ result' = s_INVALID
          /\ UNCHANGED <<r, last>>
     ELSE /\ r' = sinDecayAngleChi(last.args) /\ pc' = "sinChi"
          /\ last' = [last EXCEPT !.evaluated = @ \cup {"sinDecayAngleChi"}]
          /\ UNCHANGED <<ret, result>>
  /\ UNCHANGED <<fn, a, b, ia, ib, hm1, km1, h0, k0, inner>>
  /\ UNCHANGED <<x, N, n, t, gslvars, treevars, calls>>

\* if ( std::abs ( sinChi ) > 1 ) return s_INVALID ; return std::atan2 ( ... )
decayAngleChi_sin ==
  /\ pc = "sinChi"
  /\ IF OutOfRange(r)
     THEN ret' = "sinChi" /\ result' = s_INVALID
     ELSE ret' = "atan2" /\ result' = Sym("atan2", r, t)
  /\ pc' = "done"
  /\ UNCHANGED <<fn, a, b, ia, ib, hm1, km1, h0, k0, inner>>
  /\ UNCHANGED <<x, N, n, t, r, gslvars, treevars, recvars>>

ChiNext ==
  \/ \E g \in ChiArgs : decayAngleChi(g)
  \/ decayAngleChi_cos
  \/ decayAngleChi_sin
  \/ Reset

SpecChi == Init /\ [][ChiNext]_vars

\* --------------------------------------------------------------------------
\* Ostap::Trees::add_branch: new branches of a TTree
\* --------------------------------------------------------------------------
\* the status codes
SUCCESS == 0
INVALID_TREE == 750
CANNOT_CREATE_BRANCH == 751
CANNOT_CREATE_FORMULA == 752
INVALID_TREEFUNCTION == 753
INVALID_TH2 == 754
INVALID_TH1 == 755
INVALID_BUFFER == 756

\* largest number of entries of a tree and longest buffer
MaxEntries == 2
MaxSize == 3

\* the names of the new branches
BranchNames == {"v", "p", "q"}
\* the values held by a buffer and the default value
BufferValues == {1, 2}
DefaultValue == 9
\* the values a histogram can be sampled to
RandomValues == {5, 6}
\* the functions of a tree: the value for the entry that is loaded
TreeFunctions == {"ten", "twenty"}
IFuncTree(f, i) == IF f = "ten" THEN 10 + i ELSE 20 + i

\* a null TTree*
NullTree == [k |-> "null"]
\* a tree of E entries: GetEntry ( bad ) returns a negative number (bad = -1:
\* every entry can be read), Branch returns null for the names in refuse,
\* branches holds what the new branches were filled with
Trees ==
  {[k |-> "tree", entries |-> E, bad |-> g, refuse |-> R, created |-> {},
    branches |-> [nm \in BranchNames |-> <<>>]] :
     E \in 0..MaxEntries, g \in -1..(MaxEntries - 1),
     R \in {{}, {"v"}, {"q"}}}
TreeArgs == {tt \in Trees : tt.bad < tt.entries} \cup {NullTree}

\* tree->Branch ( name , ... ): the new branch, or null, and the tree after
\* the call
Branch(tt, nm) == IF nm \in tt.refuse THEN "null" ELSE nm
WithBranch(tt, nm) ==
  IF nm \in tt.refuse THEN tt ELSE [tt EXCEPT !.created = @ \cup {nm}]
\* branch->Fill ( ) with the value at the address given to Branch
Fill(tt, nm, v) == [tt EXCEPT !.branches[nm] = Append(@, v)]
\* tree->GetEntry ( i ) < 0
GetEntryFails(tt, i) == i = tt.bad

\* the buffers: a null pointer, or `size` values
NullBuffer == [null |-> TRUE, vals |-> <<>>]
Buffers ==
  {NullBuffer}
  \cup {[null |-> FALSE, vals |-> vs] :
          vs \in UNION {[1..j -> BufferValues] : j \in 0..MaxSize}}

\* mutant: the number of entries copied is the length of the buffer
copied_entries_size(total, size) == size

\* const Long64_t nentries = total < size ? total : size
copied_entries(total, size) == IF total < size THEN total ELSE size

\* the call returns st before any loop, having called Branch for the names
\* in asked
TreeReturn(st, asked) ==
  /\ result' = st /\ ret' = "early" /\ pc' = "done"
  /\ frame' = [k |-> "returned", asked |-> asked]

TreeMathUnchanged == UNCHANGED <<cfvars, expvars, gslvars, recvars>>

\* _add_branch_ ( tree , vname , vtype , data , size , value ) up to the loops
add_branch_entry(f, tt, data, size, value) ==
  /\ pc = "idle"
  /\ fn' = f
  /\ IF tt = NullTree THEN ttree' = tt /\ TreeReturn(INVALID_TREE, {})
     ELSE IF data.null THEN ttree' = tt /\ TreeReturn(INVALID_BUFFER, {})
     ELSE /\ ttree' = WithBranch(tt, "v")
          /\ frame' = [k |-> "buffer", data |-> data.vals, size |-> size,
                       value |-> value, bvalue |-> value,
                       branch |-> Branch(tt, "v"), total |-> tt.entries,
                       nentries |-> copied_entries(tt.entries, size),
                       i |-> 0, reads |-> {}, asked |-> {"v"}]
          /\ pc' = "copy"
          /\ UNCHANGED <<ret, result>>
  /\ TreeMathUnchanged

\* add_branch ( tree , vname , data , size , value )
add_branch_buffer(tt, data, value) ==
  add_branch_entry("add_branch_buffer", tt, data, Len(data.vals), value)

\* add_branch ( tree , vname , value ): the buffer is the value itself
add_branch_value(tt, value) ==
  add_branch_entry("add_branch_value", tt,
                   [null |-> FALSE, vals |-> <<value>>], 1, value)

\* bvalue = v ; branch->Fill ( ) of _add_branch_, w being the locals: through
\* a null pointer the behaviour is undefined, either the process ends or the
\* call has no effect
BufferFill(w, v, nextpc) ==
  IF w.branch = "null"
  THEN \/ /\ pc' = "crashed"
          /\ frame' = [w EXCEPT !.bvalue = v]
          /\ UNCHANGED ttree
       \/ /\ pc' = nextpc
          /\ frame' = [w EXCEPT !.bvalue = v, !.i = @ + 1]
          /\ UNCHANGED ttree
  ELSE /\ pc' = nextpc
       /\ ttree' = Fill(ttree, w.branch, v)
       /\ frame' = [w EXCEPT !.bvalue = v, !.i = @ + 1]

\* for ( i = 0 ; i < nentries ; ++i ) { bvalue = *(data + i) ; Fill }
add_branch_copy ==
  /\ pc = "copy"
  /\ IF frame.i < frame.nentries
     THEN BufferFill([frame EXCEPT !.reads = @ \cup {frame.i}],
                     frame.data[frame.i + 1], "copy")
     ELSE pc' = "pad" /\ UNCHANGED treevars
  /\ UNCHANGED <<fn, ret, result>>
  /\ TreeMathUnchanged

\* for ( i = nentries ; i < total ; ++i ) { bvalue = value ; Fill } and the
\* return of SUCCESS
add_branch_pad ==
  /\ pc = "pad"
  /\ IF frame.i < frame.total
     THEN /\ BufferFill(frame, frame.value, "pad")
          /\ UNCHANGED <<ret, result>>
     ELSE /\ pc' = "done" /\ result' = SUCCESS /\ ret' = "filled"
          /\ UNCHANGED treevars
  /\ UNCHANGED fn
  /\ TreeMathUnchanged

\* the maps of functions: the names in the order of std::map, each with a
\* function or a null pointer
FuncMaps ==
  {<<>>} \cup {<<[name |-> "p", func |-> f]>> : f \in TreeFunctions}
  \cup {<<[name |-> "p", func |-> f], [name |-> "q", func |-> g]>> :
          f \in TreeFunctions, g \in TreeFunctions \cup {"null"}}

\* add_branch ( tree , name , func ) up to the loop; the overload for a
\* formula makes the function of the formula and calls this one
add_branch_one(f, kind, tt, func) ==
  /\ pc = "idle"
  /\ fn' = f
  /\ IF tt = NullTree THEN ttree' = tt /\ TreeReturn(INVALID_TREE, {})
     ELSE IF kind = "TH2" THEN ttree' = tt /\ TreeReturn(INVALID_TH1, {})
     ELSE IF Branch(tt, "v") = "null"
     THEN ttree' = tt /\ TreeReturn(CANNOT_CREATE_BRANCH, {"v"})
     ELSE /\ ttree' = WithBranch(tt, "v")
          /\ frame' = [k |-> kind, func |-> func, value |-> 0,
                       branch |-> Branch(tt, "v"), nentries |-> tt.entries,
                       i |-> 0, fills |-> 0, asked |-> {"v"}]
          /\ pc' = "rows"
          /\ UNCHANGED <<ret, result>>
  /\ TreeMathUnchanged

add_branch_func(tt, func) == add_branch_one("add_branch_func", "func", tt, func)
add_branch_formula(tt, formula) ==
  add_branch_one("add_branch_formula", "func", tt, formula)
\* add_branch ( tree , name , histo ): histo is a TH1 or a TH2
add_branch_th1(tt, histo) == add_branch_one("add_branch_th1", histo, tt, "none")

\* one pass of the loop over the entries, and the return of SUCCESS
add_branch_row ==
  /\ pc = "rows"
  /\ IF frame.i < frame.nentries /\ ~GetEntryFails(ttree, frame.i)
     THEN /\ \E v \in (IF frame.k = "TH1" THEN RandomValues
                       ELSE {IFuncTree(frame.func, frame.i)}) :
               /\ ttree' = Fill(ttree, frame.branch, v)
               /\ frame' = [frame EXCEPT !.value = v, !.i = @ + 1,
                                         !.fills = @ + 1]
          /\ UNCHANGED <<pc, ret, result>>
     ELSE /\ pc' = "done" /\ result' = SUCCESS
          /\ ret' = (IF frame.i < frame.nentries THEN "break" ELSE "filled")
          /\ UNCHANGED treevars
  /\ UNCHANGED fn
  /\ TreeMathUnchanged

\* the first loop of add_branch ( tree , branches ) from the entry `index` of
\* the map on: the status it returns early, or the tree with the branches
RECURSIVE map_setup(_, _, _)
map_setup(tt, map, index) ==
  IF index > Len(map)
  THEN [st |-> SUCCESS, tree |-> tt,
        asked |-> {map[j].name : j \in 1..Len(map)}]
  ELSE IF map[index].func = "null"
  THEN [st |-> INVALID_TREEFUNCTION, tree |-> tt,
        asked |-> {map[j].name : j \in 1..(index - 1)}]
  ELSE IF Branch(tt, map[index].name) = "null"
  THEN [st |-> CANNOT_CREATE_BRANCH, tree |-> tt,
        asked |-> {map[j].name : j \in 1..index}]
  ELSE map_setup(WithBranch(tt, map[index].name), map, index + 1)

\* add_branch ( tree , branches ) up to the loop over the entries
add_branch_map(tt, map) ==
  /\ pc = "idle"
  /\ fn' = "add_branch_map"
  /\ IF tt = NullTree THEN ttree' = tt /\ TreeReturn(INVALID_TREE, {})
     ELSE IF map = <<>> THEN ttree' = tt /\ TreeReturn(SUCCESS, {})
     ELSE \E s \in {map_setup(tt, map, 1)} :
            /\ ttree' = s.tree
            /\ IF s.st # SUCCESS THEN TreeReturn(s.st, s.asked)
               ELSE /\ frame' = [k |-> "map", map |-> map,
                                 values |-> [j \in 1..Len(map) |-> 0],
                                 nentries |-> tt.entries, i |-> 0,
                                 log |-> <<>>, asked |-> s.asked]
                    /\ pc' = "maprows"
                    /\ UNCHANGED <<ret, result>>
  /\ TreeMathUnchanged

\* the tree after tbranches [ j ] -> Fill ( ) for j = from..N
RECURSIVE fill_all(_, _, _, _)
fill_all(tt, map, values, from) ==
  IF from > Len(map) THEN tt
  ELSE fill_all(Fill(tt, map[from].name, values[from]), map, values, from + 1)

\* one pass of the loop over the entries: the functions are evaluated, then
\* the branches are filled; log is what the pass did, in order
add_branch_map_row ==
  /\ pc = "maprows"
  /\ IF frame.i < frame.nentries /\ ~GetEntryFails(ttree, frame.i)
     THEN /\ \E vs \in {[j \in 1..Len(frame.map) |->
                           IFuncTree(frame.map[j].func, frame.i)]} :
               /\ ttree' = fill_all(ttree, frame.map, vs, 1)
               /\ frame' = [frame EXCEPT
                              !.values = vs, !.i = @ + 1,
                              !.log = [j \in 1..Len(frame.map) |-> "eval"]
                                      \o [j \in 1..Len(frame.map) |-> "fill"]]
          /\ UNCHANGED <<pc, ret, result>>
     ELSE /\ pc' = "done" /\ result' = SUCCESS
          /\ ret' = (IF frame.i < frame.nentries THEN "break" ELSE "filled")
          /\ UNCHANGED treevars
  /\ UNCHANGED fn
  /\ TreeMathUnchanged

CallTree ==
  \/ \E tt \in TreeArgs, data \in Buffers : add_branch_buffer(tt, data, DefaultValue)
  \/ \E tt \in TreeArgs, v \in BufferValues : add_branch_value(tt, v)
  \/ \E tt \in TreeArgs, f \in TreeFunctions : add_branch_func(tt, f)
  \/ \E tt \in TreeArgs, f \in TreeFunctions : add_branch_formula(tt, f)
  \/ \E tt \in TreeArgs, h \in {"TH1", "TH2"} : add_branch_th1(tt, h)
  \/ \E tt \in TreeArgs, map \in FuncMaps : add_branch_map(tt, map)

TreeNext ==
  \/ CallTree
  \/ add_branch_copy
  \/ add_branch_pad
  \/ add_branch_row
  \/ add_branch_map_row
  \/ Reset

SpecTree == Init /\ [][TreeNext]_vars

\* --------------------------------------------------------------------------
\* the loop of _exp_rel_N_: the counter and the convergence test; the
\* convergents are not followed, delta is any of DeltaValues
\* --------------------------------------------------------------------------
\* the last value of n: for ( n = 2 ; n <= 100000 ; ++n )
exp_rel_last == 100000
\* the pass that tests the convergence: 0 == n % 5
exp_rel_period == 5

\* | delta | in units of s_epsilon, or NaN (nan = TRUE)
DeltaValues ==
  {[nan |-> FALSE, eps |-> 0], [nan |-> FALSE, eps |-> 2],
   [nan |-> FALSE, eps |-> 3], [nan |-> TRUE, eps |-> 0]}
Untested == [nan |-> TRUE, eps |-> -1]

\* mutant: the convergence is tested in every pass
exp_rel_tests_always(nn) == TRUE

\* if ( 0 == n % 5 )
exp_rel_tests(nn) == nn % exp_rel_period = 0

\* std::abs ( delta ) <= 2 * s_epsilon
exp_rel_converged(d) == ~d.nan /\ d.eps <= 2

\* _exp_rel_N_ ( x , N ) up to the loop
exp_rel_N_enter(xx, NN) ==
  /\ pc = "idle"
  /\ fn' = "_exp_rel_N_" /\ x' = xx /\ N' = NN /\ n' = 2
  /\ t' = Untested /\ pc' = "rel_loop"
  /\ UNCHANGED <<r, ret, result>>
  /\ UNCHANGED <<cfvars, gslvars, treevars, recvars>>

\* one pass of the loop, after which n is incremented, or the loop is left by
\* the break
exp_rel_N_pass ==
  /\ pc = "rel_loop" /\ n <= exp_rel_last
  /\ IF exp_rel_tests(n)
     THEN \E d \in DeltaValues :
            /\ t' = d
            /\ IF exp_rel_converged(d)
               THEN pc' = "rel_return" /\ ret' = "break" /\ n' = n
               ELSE pc' = "rel_loop" /\ ret' = ret /\ n' = n + 1
     ELSE t' = Untested /\ n' = n + 1 /\ UNCHANGED <<pc, ret>>
  /\ UNCHANGED <<fn, x, N, r, result>>
  /\ UNCHANGED <<cfvars, gslvars, treevars, recvars>>

\* the loop ends at n > 100000
exp_rel_N_cap ==
  /\ pc = "rel_loop" /\ n > exp_rel_last
  /\ pc' = "rel_return" /\ ret' = "cap"
  /\ UNCHANGED <<fn, x, N, n, t, r, result>>
  /\ UNCHANGED <<cfvars, gslvars, treevars, recvars>>

\* return 1 / ( 1 - x / ( N + 1 + h0 / k0 ) )
exp_rel_N_leave ==
  /\ pc = "rel_return"
  /\ result' = Sym("_exp_rel_N_", x, N) /\ pc' = "done"
  /\ UNCHANGED <<fn, x, N, n, t, r, ret>>
  /\ UNCHANGED <<cfvars, gslvars, treevars, recvars>>

RelNext ==
  \/ \E xx \in {PInt(1), PInt(-1)}, NN \in {2, 3} : exp_rel_N_enter(xx, NN)
  \/ exp_rel_N_pass
  \/ exp_rel_N_cap
  \/ exp_rel_N_leave
  \/ Reset

SpecRel == Init /\ [][RelNext]_vars

\* --------------------------------------------------------------------------
\* the series _gamma_star_ and _gamma_star_2_ behind gamma_star
\* --------------------------------------------------------------------------
\* the first value of n the loops do not run: for ( n = 1 ; n < 1000000 ; ++n )
series_end == 1000000

\* | t | in units of s_epsilon: at the bound of the test, and above it
TermValues == {2, 3}

\* std::abs ( t ) <= 2 * s_epsilon
series_small(e) == e <= 2

\* 0 == a + n, for a in units of 1 / GammaUnit: the sum of two long doubles
\* is zero only when one is the negative of the other
sum_is_zero(au, nn) == isint(au) /\ round(au) = -nn

\* a division: its divisor, and whether the divisor is zero
Division(by, zero) == [by |-> by, zero |-> zero]

\* the parameters and arguments the series are entered or avoided with:
\* a = 0, -5.e-5, -1 and -3/2 at x = 1, n = -1, 0 and 2 at x = 2
SeriesParams == {0, -5, -GammaUnit, -GammaUnit - 50000}
SeriesOrders == {-1, 0, 2}

\* _gamma_star_: r = t / a ; _gamma_star_2_: t = 1 / a
series_enter ==
  /\ pc \in {"_gamma_star_", "_gamma_star_2_"} /\ ret = "call"
  /\ inner' = pc /\ pc' = "series_loop" /\ ret' = "loop"
  /\ r' = Division("a", a = 0) /\ n' = 1 /\ t' = 0
  /\ UNCHANGED <<fn, a, b, ia, ib, hm1, km1, h0, k0, result, x, N>>
  /\ UNCHANGED <<gslvars, treevars, recvars>>

\* the function returns after the loop; the value is left uninterpreted
series_leave(how) ==
  /\ pc' = "done" /\ ret' = how /\ result' = Sym(inner, x, a)

\* one pass of a loop: in _gamma_star_ the term is updated before the test
\* 0 == a + n, in _gamma_star_2_ after it; both divide by a + n after the
\* test and compare the term with 2 * s_epsilon at the end of the pass
series_pass ==
  /\ pc = "series_loop" /\ n < series_end
  /\ IF sum_is_zero(a, n)
     THEN /\ series_leave("zero")
          /\ IF inner = "_gamma_star_"
             THEN t' \in TermValues ELSE t' = t
          /\ UNCHANGED <<n, r>>
     ELSE /\ r' = Division("a+n", sum_is_zero(a, n))
          /\ \E e \in TermValues :
               /\ t' = e
               /\ IF series_small(e)
                  THEN series_leave("break") /\ n' = n
                  ELSE n' = n + 1 /\ UNCHANGED <<pc, ret, result>>
  /\ UNCHANGED <<fn, a, b, ia, ib, hm1, km1, h0, k0, inner, x, N>>
  /\ UNCHANGED <<gslvars, treevars, recvars>>

\* n < 1000000 fails
series_cap ==
  /\ pc = "series_loop" /\ n >= series_end
  /\ series_leave("cap")
  /\ UNCHANGED <<fn, a, b, ia, ib, hm1, km1, h0, k0, inner, x, N, n, t, r>>
  /\ UNCHANGED <<gslvars, treevars, recvars>>

\* a call is made when none is in progress
CallSeries ==
  /\ pc = "idle"
  /\ \/ \E au \in SeriesParams : gamma_star(au, Fin(PInt(1)))
     \/ \E nn \in SeriesOrders : gamma_star_int(nn, Fin(PInt(2)))

SeriesNext ==
  \/ CallSeries
  \/ series_enter
  \/ series_pass
  \/ series_cap
  \/ Reset

SpecSeries == Init /\ [][SeriesNext]_vars

\* --------------------------------------------------------------------------
\* reference values of the claims
\* --------------------------------------------------------------------------
\* the fraction s[i] + 1/(s[i+1] + 1/(... + 1/s[Len(s)])) as a pair <<p, q>>
\* standing for p/q, evaluated from the innermost term outwards with
\* 1/(p/q) = q/p
RECURSIVE NestedSimple(_, _)
NestedSimple(s, i) ==
  IF i = Len(s) THEN <<s[i], PInt(1)>>
  ELSE LET tl == NestedSimple(s, i + 1)
       IN  <<PAdd(PMul(s[i], tl[1]), tl[2]), tl[1]>>

\* two values agree: numerically equal, or both infinite, or both undefined
SameValue(v, w) ==
  VEq(v, w) \/ (IsInf(v) /\ IsInf(w)) \/ (IsNaN(v) /\ IsNaN(w))

\* C2: for every non-empty coefficient sequence continued_fraction_simple
\* returns a0 + 1/(a1 + 1/(a2 + ... + 1/an)); [a0] gives a0 and [a0, a1] gives
\* a0 + 1/a1
C2_SimpleIsNested ==
  (pc = "done" /\ fn = "simple" /\ a # <<>>) =>
    LET ref == NestedSimple(a, 1)
    IN  /\ SameValue(result, Div(ref[1], ref[2]))
        /\ Len(a) = 1 => VEq(result, Fin(a[1]))
        /\ Len(a) = 2 => SameValue(result, VAdd(Fin(a[1]), Div(PInt(1), a[2])))

\* a three-term call has returned 1 + 1/(2 + 1/2) = 7/5
C2_Witness ==
  /\ pc = "done" /\ fn = "simple" /\ inner = "quotient"
  /\ a = <<PInt(1), PInt(2), PInt(2)>>
  /\ VEq(result, Div(PInt(7), PInt(5)))

\* the fraction s[i]/(u[j] + s[i+1]/(u[j+1] + ... + s[Len(s)]/u[..])) as a
\* pair <<p, q>> standing for p/q, evaluated from the innermost term outwards
RECURSIVE NestedAB(_, _, _, _)
NestedAB(s, u, i, j) ==
  IF i = Len(s) THEN <<s[i], u[j]>>
  ELSE LET tl == NestedAB(s, u, i + 1, j + 1)
       IN  <<PMul(s[i], tl[2]), PAdd(PMul(u[j], tl[2]), tl[1])>>

\* C3: with b as long as a, continued_fraction(a, b) is
\* a1/(b1 + a2/(b2 + ... + aN/bN)); with b one longer it is b0 plus that
\* fraction of a and b1..bN
C3_ABIsNested ==
  (pc = "done" /\ fn = "ab" /\ a # <<>> /\ ret # "nan") =>
    LET ref == NestedAB(a, b, 1, IF ret = "front" THEN 2 ELSE 1)
        q == Div(ref[1], ref[2])
    IN  IF ret = "front" THEN SameValue(result, VAdd(Fin(b[1]), q))
        ELSE SameValue(result, q)

\* a two-term call has returned (-2)/(2^32 + 1/(-2)) = 4/(1 - 2^33)
C3_Witness ==
  /\ pc = "done" /\ fn = "ab" /\ ret = "equal" /\ inner = "quotient"
  /\ a = <<PInt(-2), PInt(1)>>
  /\ b = <<PMono(1, 1), PInt(-2)>>
  /\ VEq(result, Div(PInt(4), PAdd(PInt(1), PMono(-2, 1))))

C4_EmptyIsZero ==
  /\ (pc = "done" /\ fn = "simple" /\ a = <<>>) =>
       (VEq(result, Fin(PInt(0))) /\ inner # "quotient")
  /\ (pc = "done" /\ fn = "b" /\ b = <<>>) =>
       (VEq(result, Fin(PInt(0))) /\ inner # "quotient")
  /\ (pc = "done" /\ fn = "ab" /\ a = <<>> /\ b = <<>>) =>
       (VEq(result, Fin(PInt(0))) /\ inner # "quotient")

\* continued_fraction ( {} , {} ) has returned 0
C4_Witness ==
  /\ pc = "done" /\ fn = "ab" /\ a = <<>> /\ b = <<>>
  /\ IsFin(result) /\ PIsZero(result.n) /\ inner = "empty"

\* the recurrence of the three loops with the rescaling block left out:
\* the convergents after the coefficients from index i (of s) and j (of u) on
RawBody(f, st, av, bv) ==
  LET hp1 == IF f = "simple" THEN PAdd(PMul(av, st.h0), st.hm1)
             ELSE IF f = "b" THEN PAdd(st.h0, PMul(bv, st.hm1))
             ELSE PAdd(PMul(bv, st.h0), PMul(av, st.hm1))
      kp1 == IF f = "simple" THEN PAdd(PMul(av, st.k0), st.km1)
             ELSE IF f = "b" THEN PAdd(st.k0, PMul(bv, st.km1))
             ELSE PAdd(PMul(bv, st.k0), PMul(av, st.km1))
  IN  [hm1 |-> st.h0, km1 |-> st.k0, h0 |-> hp1, k0 |-> kp1]

RECURSIVE RawRun(_, _, _, _, _, _)
RawRun(f, st, s, u, i, j) ==
  IF (f # "b" /\ i > Len(s)) \/ (f # "simple" /\ j > Len(u)) THEN st
  ELSE RawRun(f, RawBody(f, st, IF f = "b" THEN PZero ELSE s[i],
                                IF f = "simple" THEN PZero ELSE u[j]),
              s, u, i + 1, j + 1)

RawInit(f) ==
  IF f = "simple"
  THEN [hm1 |-> PInt(0), km1 |-> PInt(1), h0 |-> PInt(1), k0 |-> PInt(0)]
  ELSE [hm1 |-> PInt(1), km1 |-> PInt(0), h0 |-> PInt(0), k0 |-> PInt(1)]

\* the quotient a call returns when nothing is ever rescaled
RawResult ==
  LET st == RawRun(fn, RawInit(fn), a, b, 1, IF ret = "front" THEN 2 ELSE 1)
      q == Div(st.h0, st.k0)
  IN  IF ret = "front" THEN VAdd(Fin(b[1]), q) ELSE q

\* one pass of a loop rescales all four convergents by 2^-32, or none of them,
\* according to the magnitude of the newest two
StepRescalesTogether ==
  (pc = "loop" /\ pc' = "loop") =>
    LET raw == RawBody(fn, St, IF fn = "b" THEN PZero ELSE a[ia],
                               IF fn = "simple" THEN PZero ELSE b[ib])
        big == \/ PGreater(PAbs(raw.h0), PMono(1, 1))
               \/ PGreater(PAbs(raw.k0), PMono(1, 1))
        sc(p) == IF big THEN ldexp(p, -32) ELSE p
    IN  /\ hm1' = sc(raw.hm1) /\ km1' = sc(raw.km1)
        /\ h0' = sc(raw.h0) /\ k0' = sc(raw.k0)

\* C5: in all three evaluators a newest convergent above 2^32 in magnitude
\* has all four running values multiplied by 2^-32 together, and the quotient
\* returned is the one the recurrence gives when it is never rescaled
C5_RescaleIsExact ==
  /\ [][StepRescalesTogether]_vars
  /\ []((pc = "done" /\ inner = "quotient") => SameValue(result, RawResult))

\* continued_fraction_simple ( { 2^32 , 2 } ) rescaled (2^33 + 1)/2 to
\* (2 + 2^-32)/2^-31 and returned 2^32 + 1/2
C5_Witness ==
  /\ pc = "done" /\ fn = "simple" /\ a = <<PMono(1, 1), PInt(2)>>
  /\ h0 = [off |-> -1, cs |-> <<1, 2>>, neg |-> FALSE]
  /\ k0 = PMono(2, -1)
  /\ hm1 = PInt(1) /\ km1 = PMono(1, -1)
  /\ VEq(result, Div(PAdd(PMono(2, 1), PInt(1)), PInt(2)))

\* s extended with zeroes to length m
Pad(s, m) == [i \in 1..m |-> IF i <= Len(s) THEN s[i] ELSE PZero]

\* C6 (as the doc comment of continued_fraction states it): with a and b of
\* different lengths the fraction of the two sequences, the shorter extended
\* with zeroes, is returned
C6_ShorterIsPadded ==
  (pc = "done" /\ fn = "ab" /\ Len(a) # Len(b)) =>
    LET m == Max2(Len(a), Len(b))
        ref == NestedAB(Pad(a, m), Pad(b, m), 1, 1)
    IN  SameValue(result, Div(ref[1], ref[2]))

\* xx^j and j!
RECURSIVE PPow(_, _)
PPow(xx, j) == IF j = 0 THEN PInt(1) ELSE PMul(xx, PPow(xx, j - 1))
RECURSIVE Factorial(_)
Factorial(j) == IF j = 0 THEN 1 ELSE j * Factorial(j - 1)

\* the partial sum of xx^j/j! for j = 0..m, in exact arithmetic
RECURSIVE PartialSum(_, _)
PartialSum(xx, m) ==
  IF m = 0 THEN Fin(PInt(1))
  ELSE VAdd(PartialSum(xx, m - 1), Reduce(Div(PPow(xx, m), PInt(Factorial(m)))))

\* C7: exprel(0) = 1
C7_ExprelAtZero ==
  (pc = "done" /\ fn = "exprel" /\ PIsZero(x)) => VEq(result, Fin(PInt(1)))

\* C8: exp_rel_N(0, N) = 1 for every N >= 0
C8_ExpRelNAtZero ==
  (pc = "done" /\ fn = "exp_rel_N" /\ PIsZero(x)) => VEq(result, Fin(PInt(1)))

\* C9: unless the overflow clamp fires, exp_N(x, N) is the partial sum of
\* x^k/k! for k = 0..N; exp_N(x, 0) = 1 and exp_N(0, N) = 1
C9_ExpNIsPartialSum ==
  (pc = "done" /\ fn = "exp_N" /\ ret # "clamp") =>
    /\ VEq(result, PartialSum(x, N))
    /\ N = 0 => VEq(result, Fin(PInt(1)))
    /\ PIsZero(x) => VEq(result, Fin(PInt(1)))

\* wherever exp_N returns a finite value without clamping, that value is the
\* partial sum
ExpNAgreesInRange ==
  (pc = "done" /\ fn = "exp_N" /\ ret # "clamp" /\ IsFin(result)) =>
    /\ VEq(result, PartialSum(x, N))
    /\ N = 0 => VEq(result, Fin(PInt(1)))
    /\ PIsZero(x) => VEq(result, Fin(PInt(1)))

\* C10: for N >= 4 and x # 0, exp_N returns nothing above the sentinel
\* 0.9 * DBL_MAX, and no infinity
C10_ExpNNeverInfinite ==
  (pc = "done" /\ fn = "exp_N" /\ N >= 4 /\ ~PIsZero(x)) =>
    /\ ~VGreater(result, s_infinity)
    /\ IsFin(result)

\* for N >= 4 and x # 0, exp_N returns nothing above the sentinel
ExpNNeverAboveSentinel ==
  (pc = "done" /\ fn = "exp_N" /\ N >= 4 /\ ~PIsZero(x)) =>
    ~VGreater(result, s_infinity)

\* the direct product x(x+1)...(x+N-1) and its derivative
DirectProduct(xx, NN) == RisingPair(xx, 0, NN).p
DirectDerivative(xx, NN) == RisingPair(xx, 0, NN).d
\* the decreasing product x(x-1)...(x-N+1)
FallingProduct(xx, NN) == RisingPair(LAdd(xx, LInt(1 - NN)), 0, NN).p

\* a returned double equals the long double u
IsValue(v, u) == v.k = "ld" /\ LEq(v, u)

\* C11: pochhammer(x, N) equals the direct product x(x+1)...(x+N-1) for every
\* x and N, whichever return statement is taken
C11_PochhammerIsProduct ==
  (pc = "done" /\ fn = "pochhammer") => IsValue(result, DirectProduct(x, N))

\* every return statement but the generic one reproduces the product
PochhammerAgreesOffGeneric ==
  (pc = "done" /\ fn = "pochhammer" /\ ret # "generic")
    => IsValue(result, DirectProduct(x, N))

\* C12: falling_factorial(x, N) is the decreasing product x(x-1)...(x-N+1),
\* and rising_factorial(x, N) is the value of pochhammer(x, N)
C12_FallingAndRising ==
  /\ (pc = "done" /\ fn = "falling_factorial")
       => IsValue(result, FallingProduct(x, N))
  /\ (pc = "done" /\ fn = "rising_factorial")
       => result = LToDouble(pochhammer_wrap(x, N).v)

\* C13: the second component of pochhammer_with_derivative(x, N) is the
\* derivative in x of the product x(x+1)...(x+N-1)
C13_DerivativeOfProduct ==
  (pc = "done" /\ fn = "pochhammer_with_derivative")
    => IsValue(result.second, DirectDerivative(x, N))

\* every return statement but the generic one returns product and derivative
DerivativeAgreesOffGeneric ==
  (pc = "done" /\ fn = "pochhammer_with_derivative" /\ ret # "generic")
    => /\ IsValue(result.first, DirectProduct(x, N))
       /\ IsValue(result.second, DirectDerivative(x, N))

\* a is within 1.e-4 of the integer j
NearInteger(au, j) == AbsInt(au - j * GammaUnit) < GammaTolerance
NearNonPositive(au) == \E j \in (-MaxA - 1)..0 : NearInteger(au, j)
ClosedForm(au, xv) ==
  LET j == CHOOSE i \in (-MaxA - 1)..0 : NearInteger(au, i)
  IN  VDiv(Fin(PInt(1)), std_pow(xv, -j))

\* C14: for a within 1e-4 of an integer n <= 0, gamma_star(a, x) returns
\* 1/x^|n| and enters neither series; for every other a a series is evaluated
C14_GammaStarClosedForm ==
  (fn \in {"gamma_star", "gamma_star_int"}) =>
    IF NearNonPositive(a)
    THEN /\ pc \notin {"_gamma_star_", "_gamma_star_2_"}
         /\ inner = "none"
         /\ pc = "done" => ret = "closed" /\ result = ClosedForm(a, x)
    ELSE pc = "done" => ret = "series" /\ inner = gamma_star_series(x)

C14_Witness ==
  /\ pc = "done" /\ fn = "gamma_star" /\ a = -GammaUnit - 5
  /\ x = Fin(PInt(2)) /\ ret = "closed" /\ result = Div(PInt(1), PInt(2))


\* C15: a call whose kernel reports a domain error returns quiet NaN, and no
\* call aborts the process
C15_DomainErrorIsNaN ==
  /\ process = "running"
  /\ \A i \in Threads :
       (th[i].pc = "done" /\ th[i].ierror = "GSL_EDOM") => IsNaN(th[i].result)

\* a call that returns after a domain error returns quiet NaN
DomainErrorIsNaNOnReturn ==
  \A i \in Threads :
    (th[i].pc = "done" /\ th[i].ierror = "GSL_EDOM") => IsNaN(th[i].result)

\* the call of f with kernel status e aborts when it runs alone
AbortsAlone(f, e) == e # "GSL_SUCCESS" /\ f \in NoSentry /\ base = "default"

\* C16: concurrent calls do not disturb one another: each ends as it does
\* when run alone, and once all have returned the handler of GSL is the one
\* installed before they started
C16_CallsAreIndependent ==
  /\ (process = "running" /\ \A i \in Threads : th[i].pc \in {"idle", "done"})
       => gsl_handler = base
  /\ \A i \in Threads :
       /\ th[i].pc = "aborted" => AbortsAlone(th[i].fn, th[i].ierror)
       /\ th[i].pc \in {"return", "done"} => ~AbortsAlone(th[i].fn, th[i].ierror)


\* the polynomial g_l(x) by its recurrence: g_0 = 1, g_1 = 1 - i x and
\* g_(l+1) = (2 l + 1) g_l - x^2 g_(l-1), real and imaginary parts
RECURSIVE g_l(_, _)
g_l(xx, ll) ==
  IF ll = 0 THEN [re |-> LInt(1), im |-> LInt(0)]
  ELSE IF ll = 1 THEN [re |-> LInt(1), im |-> LNeg(xx)]
  ELSE LET g1 == g_l(xx, ll - 1)
           g2 == g_l(xx, ll - 2)
           c == LInt(2 * (ll - 1) + 1)
           x2 == LMul(xx, xx)
       IN  [re |-> LSub(LMul(c, g1.re), LMul(x2, g2.re)),
            im |-> LSub(LMul(c, g1.im), LMul(x2, g2.im))]

\* C17: barrier_g(x, 0) = 1, barrier_g(x, 1) = 1 - i x, and barrier_g(x, l) is
\* the recurrence g_(l+1) = (2 l + 1) g_l - x^2 g_(l-1), the real part seeded
\* with (1, 1) and the imaginary part with (0, -x); barrier_factor(x, 0) = 1
C17_BarrierRecurrence ==
  /\ (pc = "done" /\ fn = "barrier_g") =>
       /\ result.k = "complex"
       /\ IsValue(result.re, g_l(x, N).re)
       /\ IsValue(result.im, g_l(x, N).im)
       /\ N = 0 => (IsValue(result.re, LInt(1)) /\ IsValue(result.im, LInt(0)))
       /\ N = 1 => (IsValue(result.re, LInt(1)) /\ IsValue(result.im, LNeg(x)))
  /\ (pc = "done" /\ fn = "barrier_factor" /\ N = 0) =>
       IsValue(result, LInt(1))

\* barrier_g(2, 3) = ( 15 - 6 * 4 ) + i ( 8 - 15 * 2 ) = -9 - 22 i
C17_Witness ==
  /\ pc = "done" /\ fn = "barrier_g" /\ N = 3 /\ ret = "term"
  /\ IsValue(x, LInt(2))
  /\ IsValue(result.re, LInt(-9)) /\ IsValue(result.im, LInt(-22))

\* the sum of pars[i] * x^(i-1) over the indices i..Len(pars)
RECURSIVE SumLowToHigh(_, _, _)
SumLowToHigh(pars, xx, i) ==
  IF i > Len(pars) THEN LInt(0)
  ELSE LAdd(LMul(pars[i], pow_ld(xx, i - 1)), SumLowToHigh(pars, xx, i + 1))

\* the sum of pars[i] * x^(Len(pars)-i) over the indices i..Len(pars)
RECURSIVE SumHighToLow(_, _, _)
SumHighToLow(pars, xx, i) ==
  IF i > Len(pars) THEN LInt(0)
  ELSE LAdd(LMul(pars[i], pow_ld(xx, Len(pars) - i)),
            SumHighToLow(pars, xx, i + 1))

\* C18: clenshaw_polynom and horner_a0 equal the sum of pars[i] x^i (pars[0]
\* at x = 0), horner_aN equals the sum of pars[i] x^(n-i) (the last
\* coefficient at x = 0), and each returns 0 for the empty sequence
C18_MonomialSums ==
  /\ (pc = "done" /\ fn \in {"clenshaw_polynom", "horner_a0"}) =>
       /\ IsValue(result, SumLowToHigh(a, x, 1))
       /\ (Len(a) > 0 /\ LSign(x) = 0) => IsValue(result, a[1])
  /\ (pc = "done" /\ fn = "horner_aN") =>
       /\ IsValue(result, SumHighToLow(a, x, 1))
       /\ (Len(a) > 0 /\ LSign(x) = 0) => IsValue(result, a[Len(a)])
  /\ (pc = "done" /\ fn \in {"clenshaw_polynom", "horner_a0", "horner_aN"}
        /\ Len(a) = 0) =>
       IsValue(result, LInt(0))

\* horner_aN(<<1, -2, 3/2>>, 2) = 4 - 4 + 3/2
C18_Witness ==
  /\ pc = "done" /\ fn = "horner_aN" /\ Len(a) = 3 /\ ret = "sum"
  /\ IsValue(a[1], LInt(1)) /\ IsValue(a[2], LInt(-2))
  /\ IsValue(a[3], LD(BigInt(3), -1))
  /\ IsValue(x, LInt(2)) /\ IsValue(result, LD(BigInt(3), -1))


\* ( a - b - c )^2 - 4 b c, without the range of double
ExactTriangle(aa, bb, cc) ==
  LET s == VSub(VSub(aa, bb), cc)
  IN  VSub(VMul(s, s), VMul(Fin(PInt(4)), VMul(bb, cc)))

\* two doubles are the same value
SameDouble(u, v) == (IsNaN(u) /\ IsNaN(v)) \/ VEq(u, v)

\* the value of triangle is that of every permutation of the arguments
PermutationsAgree(v, aa, bb, cc) ==
  /\ SameDouble(v, triangle_value(aa, cc, bb))
  /\ SameDouble(v, triangle_value(bb, aa, cc))
  /\ SameDouble(v, triangle_value(bb, cc, aa))
  /\ SameDouble(v, triangle_value(cc, aa, bb))
  /\ SameDouble(v, triangle_value(cc, bb, aa))

C20_PositiveAboveThreshold ==
  (pc = "done" /\ fn = "phasespace2") =>
     IF VLeq(x, VAdd(std_max0(a[1]), std_max0(a[2])))
     THEN ret = "threshold" /\ result = Fin(PZero)
     ELSE /\ ret = "positive"
          /\ result.k = "sym" \/ (IsInf(result) /\ ~result.neg)


\* the fallback is taken only after an overflow: above the threshold a lam
\* that is a number is positive
PositiveWhenLamIsFinite ==
  (pc = "done" /\ fn = "phasespace2" /\ ret # "threshold") =>
     (IsFin(t) => (ret = "positive" /\ result.k = "sym"))


\* what a buffer of values fills a branch of `total` entries with
BufferBranch(data, total, value) ==
  [i \in 1..total |-> IF i <= Len(data) THEN data[i] ELSE value]

\* C21: add_branch(tree, name, data, size, value) fills the new branch once
\* per entry, in entry order, entry i with data[i] for i < min(entries, size)
\* and with `value` after that, never reads data at an index >= size, and the
\* single-value overloads fill every entry with the value
C21_BufferFillsEveryEntry ==
  (fn \in {"add_branch_buffer", "add_branch_value"}
     /\ frame.k = "buffer" /\ frame.branch # "null") =>
     /\ \A i \in frame.reads : i < frame.size
     /\ pc \in {"copy", "pad"} =>
          /\ Len(ttree.branches["v"]) = frame.i
          /\ ttree.branches["v"] =
               BufferBranch(frame.data, frame.i, frame.value)
     /\ pc = "done" =>
          /\ result = SUCCESS
          /\ ttree.branches["v"] =
               BufferBranch(frame.data, ttree.entries, frame.value)
          /\ fn = "add_branch_value" =>
               ttree.branches["v"] = [i \in 1..ttree.entries |-> frame.value]

\* a buffer of one value for a tree of two entries: the branch is <<2, 9>>
C21_Witness ==
  /\ pc = "done" /\ fn = "add_branch_buffer" /\ result = SUCCESS
  /\ frame.k = "buffer" /\ frame.data = <<2>> /\ ttree.entries = 2
  /\ ttree.branches["v"] = <<2, DefaultValue>>


\* what the function f fills a branch of `total` entries with
FuncBranch(f, total) == [i \in 1..total |-> IFuncTree(f, i - 1)]

\* C28: whenever add_branch(tree, name, func) or add_branch(tree, map of
\* functions) returns SUCCESS, every new branch has been filled once for each
\* entry of the tree with the value of the function for that entry, and in the
\* map form all functions of a row are evaluated before any branch is filled
C28_SuccessMeansFilled ==
  /\ (pc = "done" /\ fn = "add_branch_func" /\ result = SUCCESS) =>
       ttree.branches["v"] = FuncBranch(frame.func, ttree.entries)
  /\ (pc = "done" /\ fn = "add_branch_map" /\ result = SUCCESS
        /\ frame.k = "map") =>
       \A j \in 1..Len(frame.map) :
          ttree.branches[frame.map[j].name] =
            FuncBranch(frame.map[j].func, ttree.entries)
  /\ (fn = "add_branch_map" /\ frame.k = "map") =>
       \A j1, j2 \in 1..Len(frame.log) :
          (frame.log[j1] = "eval" /\ frame.log[j2] = "fill") => j1 < j2

\* the rows that were read are filled in full: every new branch holds the
\* values of its function for the entries before the first that cannot be read
FilledUpToBreak ==
  (pc = "done" /\ fn \in {"add_branch_func", "add_branch_map"}
     /\ result = SUCCESS /\ frame.k \in {"func", "map"}) =>
     LET rows == IF ttree.bad < 0 THEN ttree.entries ELSE ttree.bad
     IN  \A nm \in frame.asked : Len(ttree.branches[nm]) = rows

\* C29: every overload returns INVALID_TREE for a null tree before touching
\* anything, returns CANNOT_CREATE_BRANCH whenever the tree fails to create a
\* requested branch, and never calls Fill through a null branch pointer
C29_NullTreeAndNullBranch ==
  /\ (pc = "done" /\ ttree = NullTree) =>
       (result = INVALID_TREE /\ frame.asked = {})
  /\ (pc = "done" /\ ttree # NullTree /\ ttree # NoTree
        /\ frame.asked \cap ttree.refuse # {}) =>
       result = CANNOT_CREATE_BRANCH
  /\ pc # "crashed"
  /\ (pc \in {"copy", "pad"} /\ frame.i < frame.total) =>
       frame.branch # "null"

\* the overloads that test the branch pointer never fill through a null one
\* and return CANNOT_CREATE_BRANCH
CheckedOverloadsAreSafe ==
  (fn \in {"add_branch_func", "add_branch_formula", "add_branch_th1",
           "add_branch_map"}) =>
     /\ pc # "crashed"
     /\ (pc = "done" /\ ttree # NullTree
           /\ frame.asked \cap ttree.refuse # {}) =>
          result = CANNOT_CREATE_BRANCH
     /\ pc \in {"rows", "maprows"} => frame.asked \cap ttree.refuse = {}


\* C22: the loop of exp_rel_N makes at most 99,999 passes (n = 2..100000), the
\* convergence is tested only in passes with n a multiple of 5, the loop is
\* left as soon as a tested | delta | is at most 2 epsilon, and at the cap the
\* last convergent is returned with no error signal
C22_LoopIsCapped ==
  (fn = "_exp_rel_N_") =>
     /\ n >= 2 /\ n <= exp_rel_last + 1
     /\ t # Untested => (n - (IF ret = "break" THEN 0 ELSE 1)) % 5 = 0
     /\ (pc = "rel_loop" /\ t # Untested) => (t.nan \/ t.eps > 2)
     /\ ret = "break" => (~t.nan /\ t.eps <= 2 /\ n % 5 = 0 /\ n <= exp_rel_last)
     /\ ret = "cap" => n = exp_rel_last + 1
     /\ pc = "done" =>
          (ret \in {"break", "cap"} /\ result = Sym("_exp_rel_N_", x, N))

\* the test of pass 5 failed and the test of pass 10 met the bound exactly
C22_Witness ==
  /\ pc = "done" /\ fn = "_exp_rel_N_" /\ ret = "break" /\ n = 10
  /\ t.eps = 2 /\ result = Sym("_exp_rel_N_", x, N)

\* the cap is reached: 99,999 passes without convergence
CapReached ==
  /\ pc = "done" /\ fn = "_exp_rel_N_" /\ ret = "cap" /\ n = exp_rel_last + 1


\* C23: in a call of gamma_star through either overload the series loop makes
\* at most 999,999 passes, is left at the first pass whose term is at most
\* 2 epsilon in magnitude, and no division by a or by a + n has a zero divisor
C23_SeriesIsCappedAndSafe ==
  (fn \in {"gamma_star", "gamma_star_int"} /\ inner # "none") =>
     /\ n >= 1 /\ n <= series_end
     /\ ~r.zero
     /\ (pc = "series_loop" /\ n > 1) => ~series_small(t)
     /\ ret = "break" => (series_small(t) /\ n < series_end /\ r.by = "a+n")
     /\ ret = "cap" => (n = series_end /\ ~series_small(t))
     /\ ret # "zero"
     /\ pc = "done" => result = Sym(inner, x, a)

\* the series with the factor exp ( -x ), entered by the integer overload,
\* is left by the test of the term in its third pass
C23_Witness ==
  /\ pc = "done" /\ fn = "gamma_star_int" /\ inner = "_gamma_star_2_"
  /\ ret = "break" /\ n = 3 /\ t = 2 /\ r = Division("a+n", FALSE)

\* a series runs all of its 999,999 passes
SeriesCapReached ==
  /\ pc = "done" /\ inner = "_gamma_star_" /\ ret = "cap" /\ n = series_end


\* calls a call makes at most, itself counted: one when it takes a closed form,
\* and for N > 16 the reflection, if it was not made yet, and the two halves
CallsBelow(c) ==
  Max2(1, c.N - 2) - (IF c.via = "reflect" /\ c.N > 16 THEN 1 ELSE 0)
RECURSIVE Pending(_)
Pending(cs) ==
  IF cs = <<>> THEN 0 ELSE CallsBelow(Head(cs)) + Pending(Tail(cs))

\* x is within 1.e-8 of an integer and lies in ( 1 - N , 0 )
NearIntegerBetween(xx, NN) ==
  /\ LLess(LInt(1 - NN), xx) /\ LLess(xx, LInt(0))
  /\ BelowDelta(round_distance(xx))

RecursionIsSafe ==
  (fn \in {"_pochhammer_", "_pochhammer2_"}) =>
     /\ \A i \in 1..Len(calls) :
          /\ calls[i].via = "reflect" =>
               /\ LLess(LD(BigInt(1), -1), calls[i].x)
               /\ calls[i].N = calls[i].from
               /\ pochhammer_branch(calls[i].x, calls[i].N, fn = "_pochhammer_")
                     # "reflect"
          /\ calls[i].via = "dimidation" =>
               /\ calls[i].N < calls[i].from
               /\ calls[i].N \in {calls[i].from \div 2,
                                   (calls[i].from + 1) \div 2}
     /\ last # NoCall =>
          /\ last.br \in {"one", "x", "closed"} <=> last.call.N <= 16
          /\ last.br = "zero" =>
               (fn = "_pochhammer_" /\ s_zero_ld(last.call.x))
          /\ last.br = "generic" =>
               /\ last.call.N > 96
               /\ ~NearIntegerBetween(last.call.x, last.call.N)
          /\ last.call.via = "reflect" => last.br # "reflect"
     /\ n + Pending(calls) <= Max2(1, N - 2)
     /\ pc = "done" => calls = <<>>

\* C24: the recursion of _pochhammer_ and _pochhammer2_ terminates: a
\* reflected argument is above 1/2 and is not reflected again at the same N,
\* the halves have the strictly smaller orders ceil(N/2) and floor(N/2), every
\* chain ends at a closed form with N <= 16, at the zero test or at the
\* log-Gamma formula, and that formula is taken only for N > 96 and an x that
\* is not a near-integer in ( 1 - N , 0 )
C24_RecursionTerminates ==
  /\ []RecursionIsSafe
  /\ (pc = "recursion") ~> (pc = "done")

\* a call that was reflected, halved and ended at closed forms
C24_Witness ==
  /\ pc = "done" /\ fn = "_pochhammer2_" /\ N = 33
  /\ last # NoCall /\ {"reflect", "dimidation", "closed"} \subseteq last.seen

\* a call that was reflected and then took the log-Gamma formula
GenericAfterReflection ==
  /\ pc = "done" /\ fn = "_pochhammer_" /\ N = 97
  /\ last # NoCall /\ last.br = "generic" /\ last.call.via = "wrap-reflect"


\* what gamma_star ( int n , double x ) returns: the return statement, the
\* series it calls and the value
IntOverload(nn, xv) ==
  IF nn <= 0
  THEN <<"closed", "none",
         ToDouble(VDiv(Fin(PInt(1)), std_pow(xv, AbsInt(nn))))>>
  ELSE IF VLess(Div(PInt(11), PInt(10)), xv)
  THEN <<"series", "_gamma_star_2_", Sym("_gamma_star_2_", xv, nn * GammaUnit)>>
  ELSE <<"series", "_gamma_star_", Sym("_gamma_star_", xv, nn * GammaUnit)>>

\* what gamma_star ( double a , double x ) returns for a an integer
RealOverload(au, xv) ==
  IF (isint(au) \/ AbsInt(au - GammaUnit * round(au)) < GammaTolerance)
       /\ round(au) <= 0
  THEN <<"closed", "none",
         ToDouble(VDiv(Fin(PInt(1)), std_pow(xv, AbsInt(round(au)))))>>
  ELSE IF VLess(Div(PInt(11), PInt(10)), xv)
  THEN <<"series", "_gamma_star_2_", Sym("_gamma_star_2_", xv, au)>>
  ELSE <<"series", "_gamma_star_", Sym("_gamma_star_", xv, au)>>

\* C25: for an integer n the overloads gamma_star ( n , x ) and
\* gamma_star ( a , x ) with a = n take the same return statement (the closed
\* form for n <= 0, _gamma_star_2_ for x > 1.1, _gamma_star_ otherwise) and
\* return the same value
C25_OverloadsAgree ==
  /\ (pc = "done" /\ fn = "gamma_star_int") =>
        <<ret, inner, result>> = RealOverload(a, x)
  /\ (pc = "done" /\ fn = "gamma_star" /\ a % GammaUnit = 0) =>
        <<ret, inner, result>> = IntOverload(a \div GammaUnit, x)

\* the integer overload took the series with the factor exp ( -x ) for n = 2
\* and x = 3
C25_Witness ==
  /\ pc = "done" /\ fn = "gamma_star_int" /\ a = 2 * GammaUnit
  /\ x = Fin(PInt(3)) /\ ret = "series" /\ inner = "_gamma_star_2_"
  /\ <<ret, inner, result>> = RealOverload(a, x)

\* the real overload took the closed form for a = -2
RealClosedForm ==
  /\ pc = "done" /\ fn = "gamma_star" /\ a = -2 * GammaUnit
  /\ x = Fin(PInt(2)) /\ ret = "closed" /\ result = Div(PInt(1), PInt(4))


\* two returned doubles are the same number
SameReturn(v, w) == IF v.k = "ld" /\ w.k = "ld" THEN LEq(v, w) ELSE v = w

\* C26: the first component of pochhammer_with_derivative(x, N) equals
\* pochhammer(x, N) for every x and N
C26_FirstIsPochhammer ==
  (pc = "done" /\ fn = "pochhammer_with_derivative") =>
     SameReturn(result.first, LToDouble(pochhammer_wrap(x, N).v))

\* the two agree unless the log-Gamma formula is taken at x = 0.5 - N, the one
\* argument __pochhammer__ reflects and _pochhammer2_ does not
FirstAgreesOffBoundary ==
  (pc = "done" /\ fn = "pochhammer_with_derivative"
     /\ ~(ret = "generic" /\ LEq(x, LAdd(LD(BigInt(1), -1), LInt(-N))))) =>
     SameReturn(result.first, LToDouble(pochhammer_wrap(x, N).v))


\* m1 >= m2 >= m3
Ordered(ms) == VLeq(ms[2], ms[1]) /\ VLeq(ms[3], ms[2])

\* C27: phasespace3 calls itself at most once: the masses it passes are in the
\* order m1 >= m2 >= m3, the call with them reorders nothing, and an ordered
\* call above the threshold takes exactly one of the four cases (all masses
\* zero, only m3 zero, m2 and m3 zero, no mass zero), the elliptic integrals
\* only when no mass is zero
C27_ReordersOnce ==
  (fn = "phasespace3") =>
     /\ n <= 1
     /\ (pc = "phasespace3" /\ n = 1) =>
          /\ Ordered(Head(calls).m)
          /\ ~ps3_locals(Head(calls)).unordered
          /\ ps3_locals(Head(calls)).xm = Head(calls).m
     /\ (pc = "done" /\ ret # "threshold") =>
          /\ Ordered(last.xm)
          /\ ret = "massless" <=> (last.zero[1] /\ last.zero[2] /\ last.zero[3])
          /\ ret = "one-zero" <=>
                (~last.zero[1] /\ ~last.zero[2] /\ last.zero[3])
          /\ ret = "two-zero" <=>
                (~last.zero[1] /\ last.zero[2] /\ last.zero[3])
          /\ ret = "elliptic" <=>
                (~last.zero[1] /\ ~last.zero[2] /\ ~last.zero[3])
          /\ ret \in {"massless", "one-zero", "two-zero", "elliptic"}

\* the masses 0, 1, 2 are reordered to 2, 1, 0 by all three swaps, and the one
\* call phasespace3 makes of itself takes the formula for one zero mass
C27_Witness ==
  /\ pc = "done" /\ fn = "phasespace3" /\ n = 1
  /\ a = <<Fin(PInt(0)), Fin(PInt(1)), Fin(PInt(2))>>
  /\ last.xm = <<Fin(PInt(2)), Fin(PInt(1)), Fin(PInt(0))>>
  /\ ret = "one-zero"

\* the elliptic integrals are reached
EllipticReached ==
  /\ pc = "done" /\ fn = "phasespace3" /\ ret = "elliptic" /\ n = 1


\* v lies in [ -1 , 1 ]
InRange(v) == VLeq(Fin(PInt(-1)), v) /\ VLeq(v, Fin(PInt(1)))

\* C30: decayAngleChi returns s_INVALID whenever cosDecayAngleChi or
\* sinDecayAngleChi returns s_INVALID for the same arguments, returns atan2
\* only when both values lie in [ -1 , 1 ], and does not evaluate
\* sinDecayAngleChi when the cosine fails the range test
C30_SentinelOrAngle ==
  (pc = "done" /\ fn = "decayAngleChi") =>
     /\ (cosDecayAngleChi(last.args) = s_INVALID
           \/ sinDecayAngleChi(last.args) = s_INVALID) => result = s_INVALID
     /\ ret = "atan2" =>
          /\ InRange(cosDecayAngleChi(last.args))
          /\ InRange(sinDecayAngleChi(last.args))
          /\ result = Sym("atan2", sinDecayAngleChi(last.args),
                          cosDecayAngleChi(last.args))
     /\ OutOfRange(cosDecayAngleChi(last.args)) =>
          "sinDecayAngleChi" \notin last.evaluated

\* the same with the range of the code: atan2 is returned only when neither
\* value is above 1 in magnitude, which a NaN is not
SentinelOrAngleUnlessNaN ==
  (pc = "done" /\ fn = "decayAngleChi") =>
     /\ (cosDecayAngleChi(last.args) = s_INVALID
           \/ sinDecayAngleChi(last.args) = s_INVALID) => result = s_INVALID
     /\ ret = "atan2" =>
          /\ InRange(cosDecayAngleChi(last.args))
               \/ IsNaN(cosDecayAngleChi(last.args))
          /\ InRange(sinDecayAngleChi(last.args))
               \/ IsNaN(sinDecayAngleChi(last.args))
     /\ OutOfRange(cosDecayAngleChi(last.args)) =>
          "sinDecayAngleChi" \notin last.evaluated

\* a NaN in every tensor expression, as a NaN component of d1 gives: both
\* range tests pass and atan2 of two NaN is returned
AngleOfNaN ==
  /\ pc = "done" /\ fn = "decayAngleChi" /\ ret = "atan2"
  /\ last.args = [l1 |-> NaN, l2 |-> NaN, eps |-> NaN, M2 |-> NaN,
                  var |-> NaN, p_H |-> NaN]
  /\ result = Sym("atan2", NaN, NaN)

=============================================================================
